---- MODULE Spec2Model ----
(***************************************************************************)
(* Parallel CTF challenge runner (run_claude_parallel.py) and the dynamic  *)
(* port / server-description helpers of sweagent/environment/utils.py.     *)
(*                                                                         *)
(* Spec        the scheduler (run_parallel), the supervisor sweeps, the    *)
(*             generated wrapper script of every attempt and the tmux      *)
(*             server, interleaved.                                        *)
(* CancelSpec  the same run, with SIGINT / SIGTERM arriving at any point.  *)
(* StartupSpec main() up to run_parallel: the validations of the           *)
(*             configuration, of the environment and of the dataset.       *)
(* ScriptSpec  one run of the generated wrapper script, step by step.      *)
(* ParseSpec   DockerManager.cleanup_task_resources on the session name of *)
(*             one attempt.                                                *)
(* BuilderSpec InstanceBuilder: the server description of one challenge.   *)
(* ComposeSpec get_docker_compose of several attempts on one host,         *)
(*             interleaved.                                                *)
(***************************************************************************)
EXTENDS Integers, Sequences, FiniteSets, TLC

(***************************************************************************)
(* Bounds of the model.                                                    *)
(***************************************************************************)
\* number of challenges loaded from the dataset (len(self.challenges))
NumChallenges == 2
\* config.try_times, the last round
TryTimes == 2
\* largest config.parallel_tasks the model draws
MaxParallel == 2
\* tmux sessions that may disappear on their own in one run
MaxVanish == 1
\* largest exit status a process of the model returns (a shell's is 0..255)
MaxExit == 2
\* attempts that call get_docker_compose on the same host
NumStacks == 2
\* size of the host port range get_available_port draws from
NumHostPorts == 2
\* largest number of services of a compose file
MaxServices == 2
\* largest count asked of get_multiple_available_ports
MaxCount == 3
\* most provider answers one model client gets
MaxCalls == 3
\* most prompt tokens, and most completion tokens, of one provider answer
MaxTokens == 1
\* most pieces of a model response
MaxResponseLen == 3
\* networks whose name holds a pattern of the task
NumTaskNets == 2
\* calls of cleanup_task_resources for one attempt
MaxCleanupCalls == 3
\* containers a cleanup routine submits to its thread pool
MaxOps == 2
\* ports of the host that is_port_in_use is asked about
NumProbePorts == 3

\* config.start_try (RunnerConfig default)
StartTry == 1

(***************************************************************************)
(* Attempts.  Attempt n of the run is (try_number, instance_id) in the     *)
(* order run_parallel creates them: round by round, challenge by challenge.*)
(***************************************************************************)
Attempts == 1..((TryTimes - StartTry + 1) * NumChallenges)
TryOf(a) == StartTry + ((a - 1) \div NumChallenges)
InstanceOf(a) == ((a - 1) % NumChallenges) + 1
AttemptOf(t, i) == (t - StartTry) * NumChallenges + i

SetMin(S) == CHOOSE x \in S : \A y \in S : x <= y

\* contents of a status file; "absent" is a file that does not exist
TerminalStatus == {"FINISHED", "COMPLETED_SUCCESS", "COMPLETED_FAILED"}

\* age classes of a status file's mtime: 0 fresh, 1 older than 1800 s,
\* 2 older than 3600 s
AgeStale == 1
AgeHard == 2

VARIABLES
    \* RunnerConfig
    parallel_tasks, enable_per_task_cleanup, enable_logs, try_times,
    start_try,
    \* run_parallel: position of the scheduler
    pc, try_num, task_idx, active_count,
    \* how often run_parallel called create_session for every attempt
    submissions,
    \* TmuxManager.active_sessions and the active_sessions_{id}.txt file
    active_sessions, sessions_file,
    \* cleanup_finished_sessions / _aggressive_cleanup_stuck_sessions locals
    lines_todo, active_lines, cur, ret, stuck_sessions,
    \* the tmux server: session of every attempt
    tmux,
    \* the wrapper script of every attempt
    wpc,
    \* the status file of every attempt and the age class of its mtime
    status, age,
    \* sessions cleanup_task_resources was invoked for
    cleaned,
    \* number of sessions that disappeared on their own so far
    vanished

VARIABLES
    \* ScriptSpec: position in the wrapper script, what the run of the
    \* command will do, $exit_code, and the content of the status file
    script_pc, script_in, exit_code, status_file

VARIABLES
    \* ParseSpec: the attempt, and what cleanup_task_resources extracted
    parse_pc, task, parts, instance_id, challenge_id, try_number,
    container_name

VARIABLES
    \* BuilderSpec: InstanceBuilder.args["challenge"]
    builder_pc, challenge

VARIABLES
    \* ComposeSpec: every caller of get_docker_compose (position, internal
    \* ports still to map, port_mappings, whether its services started) and
    \* the host ports that are bound
    compose_pc, ports_todo, port_mappings, started, host_bound

VARIABLES
    \* CancelSpec: config.disable_cleanup, whether
    \* comprehensive_cleanup(execution_id) was invoked, whether a signal
    \* was handled, and the exit code of the process (-1: running)
    disable_cleanup, swept, signalled, exit_status

VARIABLES
    \* StartupSpec: position in main(), the RunnerConfig loaded from the
    \* YAML file, the variables set (non-empty) in os.environ, whether the
    \* dataset JSON exists, whether run_parallel was entered, and the exit
    \* code of main (-1: running)
    main_pc, config, environ, dataset_exists, run_entered, main_exit

VARIABLES
    \* RewriteSpec: position; the parsed compose file, the suffix and the
    \* port_mappings handed to create_dynamic_docker_compose; the arguments
    \* challenge_internal_port and dynamic_ports of get_docker_compose; the
    \* document the rewrite wrote and port_mappings after it; the document
    \* of a second rewrite; the document `docker compose up` is given
    rewrite_pc, compose_data, container_name_suffix, mappings_arg,
    challenge_internal_port, dynamic_ports, modified_compose,
    mappings_result, second_compose, actual_compose

VARIABLES
    \* BatchSpec: position in get_multiple_available_ports, its argument
    \* count, the shuffled ports not yet tried, allocated_ports, the ports
    \* its temporary sockets hold, what it returned, and the ports other
    \* processes hold
    batch_pc, count, port_range, allocated_ports, temp_sockets, returned,
    in_use

VARIABLES
    \* LogCheckSpec: position; the session cleanup_finished_sessions
    \* examines; for every attempt whether its log file exists and holds a
    \* Docker error string; config.enable_logs; the attempt whose log the
    \* glob gave first (0: none); the status file of the examined session
    \* and whether its session was killed
    check_pc, checked, log_files, logs_enabled, picked, check_status,
    check_killed

VARIABLES
    \* ClientSpec: the class of the model client; self.stats;
    \* args.total_cost_limit and args.per_instance_cost_limit; the position
    \* of query(); the number of the attempt the retry wrapper is making;
    \* the provider calls this query() has made; the error query() raised
    model_backend, stats, total_cost_limit, per_instance_cost_limit,
    query_pc, attempt_number, provider_calls, query_error,
    \* what the calls of update_stats were given: the input tokens, the
    \* output tokens and the number of the calls since the last
    \* reset_stats(), and the cost of all calls since the client was made
    sum_input_tokens, sum_output_tokens, num_calls, total_spent

callTotals == <<sum_input_tokens, sum_output_tokens, num_calls, total_spent>>
clientVars == <<model_backend, stats, total_cost_limit,
                per_instance_cost_limit, query_pc, attempt_number,
                provider_calls, query_error, callTotals>>
VARIABLES
    \* CleanSpec: position; the response of the provider; clean_result of
    \* it; clean_result of that
    clean_pc, result, content, content_again

cleanVars == <<clean_pc, result, content, content_again>>
VARIABLES
    \* TaskCleanupSpec: whether DockerManager has a client; the state of
    \* the container the call names (absent: Docker has none of that name);
    \* the networks Docker has whose name holds a pattern of the task; the
    \* calls of cleanup_task_resources made; the exception the last call
    \* let out; the call that found resources and left none
    docker_client, task_container, task_networks, cleanup_calls,
    cleanup_raised, removing_call

taskVars == <<docker_client, task_container, task_networks, cleanup_calls,
              cleanup_raised, removing_call>>
VARIABLES
    \* SummarySpec: position; the content of the status file of every
    \* attempt (absent: no file); the three counts print_summary logs
    summary_pc, status_files, completed_jobs, successful_jobs, failed_jobs

summaryVars == <<summary_pc, status_files, completed_jobs, successful_jobs,
                 failed_jobs>>
VARIABLES
    \* JanitorSpec: position of the routine; which routine runs; the
    \* section of it (stop, remove; or the Docker call of the direct
    \* routine); the state of every Docker operation of the section; the
    \* seconds the routine has spent blocked
    jan_pc, jan_routine, jan_phase, op_state, jan_clock

janitorVars == <<jan_pc, jan_routine, jan_phase, op_state, jan_clock>>
VARIABLES
    \* ProbeSpec: what holds each port of the host (free, bound: a socket
    \* is bound to it and does not listen, listening); the port
    \* is_port_in_use was last asked about (0: none yet); whether its bind
    \* succeeded; what became of its connect; what it returned
    port_state, probed, bind_ok, connect_outcome, probe_result

probeVars == <<port_state, probed, bind_ok, connect_outcome, probe_result>>
VARIABLES
    \* ScopeSpec: position; the execution id of the runner; the attempt
    \* cleanup_task_resources is called for and another attempt that is
    \* still running; the names of the networks and containers Docker has;
    \* the names the call removed
    scope_pc, execution, attempt_A, attempt_B, docker_networks,
    docker_containers, removed_networks, removed_containers

scopeVars == <<scope_pc, execution, attempt_A, attempt_B, docker_networks,
               docker_containers, removed_networks, removed_containers>>
checkVars == <<check_pc, checked, log_files, logs_enabled, picked,
               check_status, check_killed>>
batchVars == <<batch_pc, count, port_range, allocated_ports, temp_sockets,
               returned, in_use>>
rewriteVars == <<rewrite_pc, compose_data, container_name_suffix,
                 mappings_arg, challenge_internal_port, dynamic_ports,
                 modified_compose, mappings_result, second_compose,
                 actual_compose>>
startupVars == <<main_pc, config, environ, dataset_exists, run_entered,
                 main_exit>>
cancelVars == <<disable_cleanup, swept, signalled, exit_status>>
scriptVars == <<script_pc, script_in, exit_code, status_file>>
parseVars == <<parse_pc, task, parts, instance_id, challenge_id, try_number,
               container_name>>
builderVars == <<builder_pc, challenge>>
composeVars == <<compose_pc, ports_todo, port_mappings, started, host_bound>>

\* what the run of the scheduler never touches
besideRun == <<scopeVars,
               probeVars,
               janitorVars,
               summaryVars,
               taskVars,
               cleanVars,
               clientVars,
               checkVars,
               batchVars,
               rewriteVars,
               startupVars, cancelVars, scriptVars, parseVars, builderVars,
               composeVars>>

cfgVars == <<parallel_tasks, enable_per_task_cleanup, enable_logs, try_times,
             start_try>>

schedVars == <<parallel_tasks, enable_per_task_cleanup, enable_logs,
               try_times, start_try, submissions, pc, try_num, task_idx, active_count, active_sessions,
               sessions_file, lines_todo, active_lines, cur, ret,
               stuck_sessions, tmux, wpc, status, age, cleaned, vanished>>

runVars == <<pc, try_num, task_idx, active_count>>
sweepVars == <<lines_todo, active_lines, cur, ret, stuck_sessions>>
envVars == <<vanished>>

vars == <<schedVars, scopeVars,
          probeVars,
          janitorVars,
          summaryVars,
          taskVars,
          cleanVars,
          clientVars,
          checkVars,
          batchVars,
          rewriteVars,
          startupVars, cancelVars, scriptVars, parseVars,
          builderVars, composeVars>>

(***************************************************************************)
(* Initial state: ChallengeRunner.__init__ done, run_parallel has created  *)
(* the empty active sessions file and is about to start the first round.   *)
(***************************************************************************)
RunStart ==
    /\ parallel_tasks \in 1..MaxParallel
    /\ enable_per_task_cleanup \in BOOLEAN
    /\ enable_logs \in BOOLEAN
    /\ submissions = [a \in Attempts |-> 0]
    /\ pc = "dispatch"
    /\ try_num = start_try
    /\ task_idx = 1
    /\ active_count = 0
    /\ active_sessions = {}
    /\ sessions_file = {}
    /\ lines_todo = {}
    /\ active_lines = {}
    /\ cur = 0
    /\ ret = "none"
    /\ stuck_sessions = {}
    /\ tmux = [a \in Attempts |-> "none"]
    /\ wpc = [a \in Attempts |-> "idle"]
    /\ status = [a \in Attempts |-> "absent"]
    /\ age = [a \in Attempts |-> 0]
    /\ cleaned = {}
    /\ vanished = 0

\* the run with the configured number of tries and the default start_try
SchedInit ==
    /\ try_times = TryTimes
    /\ start_try = StartTry
    /\ RunStart

(***************************************************************************)
(* The parts of the state a specification does not run stay at rest.       *)
(***************************************************************************)
\* absent value of an optional field or argument (Python None)
None == "None"

\* no runner has been constructed
SchedIdle ==
    /\ parallel_tasks = 1
    /\ enable_per_task_cleanup = FALSE
    /\ enable_logs = FALSE
    /\ try_times = TryTimes
    /\ start_try = StartTry
    /\ submissions = [a \in Attempts |-> 0]
    /\ pc = "off"
    /\ try_num = StartTry
    /\ task_idx = 1
    /\ active_count = 0
    /\ active_sessions = {}
    /\ sessions_file = {}
    /\ lines_todo = {}
    /\ active_lines = {}
    /\ cur = 0
    /\ ret = "none"
    /\ stuck_sessions = {}
    /\ tmux = [a \in Attempts |-> "none"]
    /\ wpc = [a \in Attempts |-> "idle"]
    /\ status = [a \in Attempts |-> "absent"]
    /\ age = [a \in Attempts |-> 0]
    /\ cleaned = {}
    /\ vanished = 0

\* main() is not followed
StartupIdle ==
    /\ main_pc = "off"
    /\ config = <<>>
    /\ environ = {}
    /\ dataset_exists = TRUE
    /\ run_entered = FALSE
    /\ main_exit = -1

\* no signal is modelled: the process runs with the default configuration
CancelIdle ==
    /\ disable_cleanup = FALSE
    /\ swept = FALSE
    /\ signalled = FALSE
    /\ exit_status = -1

\* no wrapper script is being followed
ScriptIdle ==
    /\ script_pc = "off"
    /\ script_in = [log_file |-> FALSE, child_exit |-> 0, tee_exit |-> 0,
                    signature |-> FALSE]
    /\ exit_code = -1
    /\ status_file = "absent"

\* cleanup_task_resources is not being called
ParseIdle ==
    /\ parse_pc = "off"
    /\ task = <<>>
    /\ parts = <<>>
    /\ instance_id = <<>>
    /\ challenge_id = <<>>
    /\ try_number = <<>>
    /\ container_name = <<>>

\* no InstanceBuilder
BuilderIdle ==
    /\ builder_pc = "off"
    /\ challenge = <<>>

\* nobody calls get_docker_compose
ComposeIdle ==
    /\ compose_pc = <<>>
    /\ ports_todo = <<>>
    /\ port_mappings = <<>>
    /\ started = <<>>
    /\ host_bound = {}

\* the port_mappings argument: None, or a dict internal -> external
NoMappings == [none |-> TRUE, items |-> <<>>]
Mappings(items) == [none |-> FALSE, items |-> items]
\* a document without services
NoCompose ==
    [services |-> <<>>, networks |-> [present |-> FALSE, items |-> <<>>]]

\* APIStats(): the dataclass defaults
APIStats ==
    [total_cost |-> 0, instance_cost |-> 0, tokens_sent |-> 0,
     tokens_received |-> 0, api_calls |-> 0]

\* no model client exists
ClientIdle ==
    /\ model_backend = "openai"
    /\ stats = APIStats
    /\ total_cost_limit = 0
    /\ per_instance_cost_limit = 0
    /\ query_pc = "off"
    /\ attempt_number = 0
    /\ provider_calls = 0
    /\ query_error = "none"
    /\ sum_input_tokens = 0
    /\ sum_output_tokens = 0
    /\ num_calls = 0
    /\ total_spent = 0

\* clean_result is not called
CleanIdle ==
    /\ clean_pc = "off"
    /\ result = <<>>
    /\ content = <<>>
    /\ content_again = <<>>

\* cleanup_task_resources is not called
TaskIdle ==
    /\ docker_client = FALSE
    /\ task_container = "absent"
    /\ task_networks = {}
    /\ cleanup_calls = 0
    /\ cleanup_raised = "none"
    /\ removing_call = 0

\* print_summary is not called
SummaryIdle ==
    /\ summary_pc = "off"
    /\ status_files = [a \in Attempts |-> "absent"]
    /\ completed_jobs = 0
    /\ successful_jobs = 0
    /\ failed_jobs = 0

\* no cleanup routine of DockerManager runs
JanitorIdle ==
    /\ jan_pc = "off"
    /\ jan_routine = "cleanup_containers"
    /\ jan_phase = 1
    /\ op_state = [w \in 1..MaxOps |-> "idle"]
    /\ jan_clock = 0

\* is_port_in_use is not called
ProbeIdle ==
    /\ port_state = [p \in 1..NumProbePorts |-> "free"]
    /\ probed = 0
    /\ bind_ok = FALSE
    /\ connect_outcome = "none"
    /\ probe_result = "none"

\* cleanup_task_resources is not called on named Docker resources
ScopeIdle ==
    /\ scope_pc = "off"
    /\ execution = <<>>
    /\ attempt_A = <<>>
    /\ attempt_B = <<>>
    /\ docker_networks = {}
    /\ docker_containers = {}
    /\ removed_networks = {}
    /\ removed_containers = {}

\* no session is examined for Docker errors
CheckIdle ==
    /\ check_pc = "off"
    /\ checked = 1
    /\ log_files = [a \in Attempts |-> "none"]
    /\ logs_enabled = FALSE
    /\ picked = 0
    /\ check_status = "RUNNING"
    /\ check_killed = FALSE

\* get_multiple_available_ports is not called
BatchIdle ==
    /\ batch_pc = "off"
    /\ count = 0
    /\ port_range = <<>>
    /\ allocated_ports = <<>>
    /\ temp_sockets = {}
    /\ returned = <<>>
    /\ in_use = {}

\* no compose file is being rewritten
RewriteIdle ==
    /\ rewrite_pc = "off"
    /\ compose_data = NoCompose
    /\ container_name_suffix = "s1"
    /\ mappings_arg = NoMappings
    /\ challenge_internal_port = None
    /\ dynamic_ports = FALSE
    /\ modified_compose = NoCompose
    /\ mappings_result = NoMappings
    /\ second_compose = NoCompose
    /\ actual_compose = NoCompose

(***************************************************************************)
(* Helpers shared by the scheduler and the supervisor.                     *)
(***************************************************************************)
\* attempts for which run_parallel has already called create_session
Submitted ==
    {a \in Attempts : /\ TryOf(a) >= start_try
                      /\ \/ TryOf(a) < try_num
                         \/ TryOf(a) = try_num /\ InstanceOf(a) < task_idx}

\* run_parallel: `while active_sessions >= self.config.parallel_tasks`
AtParallelLimitOff(n) == n > parallel_tasks
AtParallelLimit(n) == n >= parallel_tasks

\* wait_for_completion: `if active_sessions == 0: break`
AllSessionsCompletedOff(S) == Cardinality(S) <= 1
AllSessionsCompleted(S) == Cardinality(S) = 0

\* TmuxManager.kill_session: `tmux kill-session`; the name is discarded from
\* active_sessions only when the command succeeded (the session existed)
KillSessionTmux(tm, a) == [tm EXCEPT ![a] = IF @ = "alive" THEN "gone" ELSE @]
KillSessionActive(tm, S, a) == IF tm[a] = "alive" THEN S \ {a} ELSE S
\* the wrapper script dies with its session
KillSessionWpc(tm, w, a) == [w EXCEPT ![a] = IF tm[a] = "alive" THEN "dead" ELSE @]

\* TmuxManager.list_sessions: live sessions carrying this execution's prefix
ListSessions(tm) == {a \in Attempts : tm[a] = "alive"}

\* TmuxManager.cleanup_all_sessions: kill every listed session
CleanupAllTmuxKeep(tm) == tm
CleanupAllTmux(tm) == [a \in Attempts |-> IF tm[a] = "alive" THEN "gone" ELSE tm[a]]
CleanupAllActive(tm, S) == S \ ListSessions(tm)
CleanupAllWpc(tm, w) == [a \in Attempts |-> IF tm[a] = "alive" THEN "dead" ELSE w[a]]

\* `if self.config.enable_per_task_cleanup: cleanup_task_resources(session)`
CleanupTask(cl, a) == IF enable_per_task_cleanup THEN cl \cup {a} ELSE cl

\* cleanup_finished_sessions, no status file: the session is assumed to have
\* started 300 s ago and is stuck after 1800 s
AssumedAgeNoStatus == 300
NoStatusTimeout == 1800
NoStatusStuckFlipped == AssumedAgeNoStatus < NoStatusTimeout
NoStatusStuck == AssumedAgeNoStatus > NoStatusTimeout

\* _aggressive_cleanup_stuck_sessions, no status file: assumed start 600 s
\* ago, stuck after 2400 s
AssumedAgeNoStatusAggr == 600
NoStatusTimeoutAggr == 2400
NoStatusStuckAggr == AssumedAgeNoStatusAggr > NoStatusTimeoutAggr

\* cleanup_finished_sessions: `time.time() - stat.st_mtime > 3600`
HardTimedOut(a) == age[a] >= AgeHard
\* _aggressive_cleanup_stuck_sessions: `time.time() - stat.st_mtime > 1800`
StatusStale(a) == age[a] >= AgeStale

\* wrappers of a try that have reached the command: with enable_logs their
\* log files exist, and the glob `{execution_id}_parallel_*_try{N}.log` of
\* the session of attempt a matches every one of them
LogCandidates(a) ==
    {b \in Attempts : TryOf(b) = TryOf(a) /\ status[b] # "absent"}

(***************************************************************************)
(* The wrapper script generated by TmuxManager.create_session.             *)
(***************************************************************************)
ExitCodes == 0..MaxExit

\* `exit_code=$?` after the command: with a log file the command is the
\* pipeline `bash cmd 2>&1 | tee -a log` (no pipefail), whose status is tee's
ScriptExitCode(logs, child_exit, tee_exit) ==
    IF logs THEN tee_exit ELSE child_exit

\* the status the script writes for a value of $exit_code: the two greps for
\* Docker errors in the log (only on a non-zero code), then the final test
ScriptStatus(code, logs, signature) ==
    IF code # 0 /\ logs /\ signature
      THEN "COMPLETED_FAILED"
      ELSE IF code = 0 THEN "COMPLETED_SUCCESS"
                       ELSE "COMPLETED_FAILED"

\* the status the script writes after the command has returned
ScriptFinalStatus(logs, child_exit, tee_exit, signature) ==
    ScriptStatus(ScriptExitCode(logs, child_exit, tee_exit), logs, signature)

\* what the script may write, over the exit statuses of the command and of
\* tee and over the content of the log
ScriptOutcomes(logs) ==
    {ScriptFinalStatus(logs, child_exit, tee_exit, signature) :
        child_exit \in ExitCodes, tee_exit \in ExitCodes,
        signature \in BOOLEAN}

\* the script fails a pre-flight check (run.py or python missing)
WrapperPrecheckFail(a) ==
    /\ tmux[a] = "alive" /\ wpc[a] = "pre"
    /\ status' = [status EXCEPT ![a] = "COMPLETED_FAILED"]
    /\ age' = [age EXCEPT ![a] = 0]
    /\ wpc' = [wpc EXCEPT ![a] = "exited"]
    /\ UNCHANGED <<besideRun, submissions,
                   cfgVars, envVars, runVars, sweepVars, active_sessions,
                   sessions_file, tmux, cleaned>>

\* `echo "RUNNING" > status_file`, then the command starts (tee opens the log)
WrapperInit(a) ==
    /\ tmux[a] = "alive" /\ wpc[a] = "pre"
    /\ status' = [status EXCEPT ![a] = "RUNNING"]
    /\ age' = [age EXCEPT ![a] = 0]
    /\ wpc' = [wpc EXCEPT ![a] = "child"]
    /\ UNCHANGED <<besideRun, submissions,
                   cfgVars, envVars, runVars, sweepVars, active_sessions,
                   sessions_file, tmux, cleaned>>

\* the command returns; the script writes the final status and ends (the
\* tmux session stays: its shell outlives the script)
WrapperFinish(a) ==
    /\ tmux[a] = "alive" /\ wpc[a] = "child"
    /\ \E final \in ScriptOutcomes(enable_logs) :
         status' = [status EXCEPT ![a] = final]
    /\ age' = [age EXCEPT ![a] = 0]
    /\ wpc' = [wpc EXCEPT ![a] = "exited"]
    /\ UNCHANGED <<besideRun, submissions,
                   cfgVars, envVars, runVars, sweepVars, active_sessions,
                   sessions_file, tmux, cleaned>>

(***************************************************************************)
(* Environment: time passing over a RUNNING status file, and a tmux        *)
(* session disappearing on its own.                                        *)
(***************************************************************************)
\* the mtime of a RUNNING status file crosses the next threshold
Tick(a) ==
    /\ tmux[a] = "alive" /\ status[a] = "RUNNING" /\ age[a] < AgeHard
    /\ age' = [age EXCEPT ![a] = @ + 1]
    /\ UNCHANGED <<besideRun, submissions,
                   cfgVars, envVars, runVars, sweepVars, active_sessions,
                   sessions_file, tmux, wpc, status, cleaned>>

SessionVanish(a) ==
    /\ tmux[a] = "alive" /\ vanished < MaxVanish
    /\ vanished' = vanished + 1
    /\ tmux' = [tmux EXCEPT ![a] = "gone"]
    /\ wpc' = [wpc EXCEPT ![a] = "dead"]
    /\ UNCHANGED <<besideRun, submissions,
                   cfgVars, runVars, sweepVars, active_sessions,
                   sessions_file, status, age, cleaned>>

(***************************************************************************)
(* ChallengeRunner.run_parallel: the dispatch loop of one round.           *)
(***************************************************************************)
\* create_session succeeds: the session exists, the script is started, the
\* name is added to active_sessions; run_parallel counts it and appends the
\* line `session:status_file` to the active sessions file
Launch ==
    /\ pc = "dispatch" /\ task_idx <= NumChallenges
    /\ ~AtParallelLimit(active_count)
    /\ LET a == AttemptOf(try_num, task_idx)
       IN  /\ tmux' = [tmux EXCEPT ![a] = "alive"]
           /\ wpc' = [wpc EXCEPT ![a] = "pre"]
           /\ active_sessions' = active_sessions \cup {a}
           /\ sessions_file' = sessions_file \cup {a}
           /\ submissions' = [submissions EXCEPT ![a] = @ + 1]
    /\ active_count' = active_count + 1
    /\ task_idx' = task_idx + 1
    /\ UNCHANGED <<besideRun,
                   cfgVars, envVars, pc, try_num, lines_todo, active_lines, cur, ret,
                   stuck_sessions, status, age, cleaned>>

\* create_session returns False: nothing is started, nothing is recorded
LaunchFails ==
    /\ pc = "dispatch" /\ task_idx <= NumChallenges
    /\ ~AtParallelLimit(active_count)
    /\ submissions' =
          [submissions EXCEPT ![AttemptOf(try_num, task_idx)] = @ + 1]
    /\ task_idx' = task_idx + 1
    /\ UNCHANGED <<besideRun,
                   cfgVars, envVars, pc, try_num, active_count, active_sessions,
                   sessions_file, lines_todo, active_lines, cur, ret,
                   stuck_sessions, tmux, wpc, status, age, cleaned>>

\* at the limit: call cleanup_finished_sessions (it reads the file's lines)
DispatchPoll ==
    /\ pc = "dispatch" /\ task_idx <= NumChallenges
    /\ AtParallelLimit(active_count)
    /\ pc' = "cfs" /\ ret' = "dispatch_count"
    /\ lines_todo' = sessions_file /\ active_lines' = {}
    /\ UNCHANGED <<besideRun, submissions,
                   cfgVars, envVars, try_num, task_idx, active_count, active_sessions,
                   sessions_file, cur, stuck_sessions, tmux, wpc, status,
                   age, cleaned>>

\* `active_sessions = len(self.tmux_manager.active_sessions)`
DispatchCount ==
    /\ pc = "dispatch_count"
    /\ active_count' = Cardinality(active_sessions)
    /\ pc' = "dispatch"
    /\ UNCHANGED <<besideRun, submissions,
                   cfgVars, envVars, try_num, task_idx, active_sessions, sessions_file,
                   lines_todo, active_lines, cur, ret, stuck_sessions, tmux,
                   wpc, status, age, cleaned>>

\* all tasks of the round submitted: wait_for_completion()
StartDrain ==
    /\ pc = "dispatch" /\ task_idx > NumChallenges
    /\ pc' = "wait"
    /\ UNCHANGED <<besideRun, submissions,
                   cfgVars, envVars, try_num, task_idx, active_count, active_sessions,
                   sessions_file, lines_todo, active_lines, cur, ret,
                   stuck_sessions, tmux, wpc, status, age, cleaned>>

(***************************************************************************)
(* ChallengeRunner.cleanup_finished_sessions.                              *)
(***************************************************************************)
\* one line of the file.  Outcomes: the session is gone (line dropped, the
\* status is written only if the file is missing); a terminal status (kill,
\* cleanup, line dropped); RUNNING past the hard timeout, or a Docker error
\* signature in the log file the glob picked, or no status file for too
\* long (continue at cfs_write); line kept.
CfsLine ==
    /\ pc = "cfs" /\ lines_todo # {}
    /\ LET a == SetMin(lines_todo)
       IN
       /\ lines_todo' = lines_todo \ {a}
       /\ IF tmux[a] # "alive"
          THEN /\ status' = IF status[a] = "absent"
                              THEN [status EXCEPT ![a] = "COMPLETED_FAILED"]
                              ELSE status
               /\ cleaned' = IF status[a] = "absent"
                               THEN CleanupTask(cleaned, a) ELSE cleaned
               /\ UNCHANGED <<pc, cur, active_lines, tmux, wpc,
                              active_sessions>>
          ELSE IF status[a] \in TerminalStatus
          THEN /\ tmux' = KillSessionTmux(tmux, a)
               /\ wpc' = KillSessionWpc(tmux, wpc, a)
               /\ active_sessions' = KillSessionActive(tmux, active_sessions, a)
               /\ cleaned' = CleanupTask(cleaned, a)
               /\ UNCHANGED <<pc, cur, active_lines, status>>
          ELSE IF status[a] = "RUNNING"
          THEN \/ /\ HardTimedOut(a)
                  /\ pc' = "cfs_write" /\ cur' = a
                  /\ UNCHANGED <<active_lines, tmux, wpc, active_sessions,
                                 status, cleaned>>
               \/ /\ ~HardTimedOut(a)
                  /\ \/ /\ enable_logs
                        /\ LogCandidates(a) # {}
                        /\ \E docker_error \in BOOLEAN :
                             IF docker_error
                               THEN /\ pc' = "cfs_write" /\ cur' = a
                                    /\ UNCHANGED active_lines
                               ELSE /\ active_lines' = active_lines \cup {a}
                                    /\ UNCHANGED <<pc, cur>>
                     \/ /\ ~enable_logs \/ LogCandidates(a) = {}
                        /\ active_lines' = active_lines \cup {a}
                        /\ UNCHANGED <<pc, cur>>
                  /\ UNCHANGED <<tmux, wpc, active_sessions, status, cleaned>>
          ELSE \* no status file, session alive
               /\ IF NoStatusStuck
                    THEN /\ pc' = "cfs_write" /\ cur' = a
                         /\ UNCHANGED active_lines
                    ELSE /\ active_lines' = active_lines \cup {a}
                         /\ UNCHANGED <<pc, cur>>
               /\ UNCHANGED <<tmux, wpc, active_sessions, status, cleaned>>
    /\ UNCHANGED <<besideRun, submissions,
                   cfgVars, envVars, try_num, task_idx, active_count, sessions_file,
                   ret, stuck_sessions, age>>

\* `with open(status_path, 'w') as sf: sf.write("COMPLETED_FAILED")`
CfsWrite ==
    /\ pc = "cfs_write"
    /\ status' = [status EXCEPT ![cur] = "COMPLETED_FAILED"]
    /\ age' = [age EXCEPT ![cur] = 0]
    /\ pc' = "cfs_kill"
    /\ UNCHANGED <<besideRun, submissions,
                   cfgVars, envVars, try_num, task_idx, active_count, active_sessions,
                   sessions_file, lines_todo, active_lines, cur, ret,
                   stuck_sessions, tmux, wpc, cleaned>>

\* kill_session, then the per-task cleanup; the line is not kept
CfsKill ==
    /\ pc = "cfs_kill"
    /\ tmux' = KillSessionTmux(tmux, cur)
    /\ wpc' = KillSessionWpc(tmux, wpc, cur)
    /\ active_sessions' = KillSessionActive(tmux, active_sessions, cur)
    /\ cleaned' = CleanupTask(cleaned, cur)
    /\ pc' = "cfs" /\ cur' = 0
    /\ UNCHANGED <<besideRun, submissions,
                   cfgVars, envVars, try_num, task_idx, active_count, sessions_file,
                   lines_todo, active_lines, ret, stuck_sessions, status,
                   age>>

\* `f.writelines(active_lines)`: the file is overwritten, the call returns
CfsReturn ==
    /\ pc = "cfs" /\ lines_todo = {}
    /\ sessions_file' = active_lines
    /\ active_lines' = {}
    /\ pc' = ret /\ ret' = "none"
    /\ UNCHANGED <<besideRun, submissions,
                   cfgVars, envVars, try_num, task_idx, active_count, active_sessions,
                   lines_todo, cur, stuck_sessions, tmux, wpc, status, age, cleaned>>

(***************************************************************************)
(* ChallengeRunner.wait_for_completion and the end of a round.             *)
(***************************************************************************)
\* the `for try_num in range(...)` loop advances, or run_parallel is done
LastRoundEarly == try_num >= start_try

LastRound == try_num = try_times
NextPc == IF LastRound THEN "done" ELSE "dispatch"
NextTry == IF LastRound THEN try_num ELSE try_num + 1
NextTaskIdx == IF LastRound THEN task_idx ELSE 1
NextActiveCount == IF LastRound THEN active_count ELSE 0

\* `while time.time() - start_time < max_wait_time`: still within the budget
WaitPoll ==
    /\ pc = "wait"
    /\ pc' = "cfs" /\ ret' = "wait_count"
    /\ lines_todo' = sessions_file /\ active_lines' = {}
    /\ UNCHANGED <<besideRun, submissions,
                   cfgVars, envVars, try_num, task_idx, active_count, active_sessions,
                   sessions_file, cur, stuck_sessions, tmux, wpc, status,
                   age, cleaned>>

\* max_wait_time is over: the loop ends and cleanup_all_sessions kills what
\* tmux still lists; the round is over
WaitTimeout ==
    /\ pc = "wait"
    /\ tmux' = CleanupAllTmux(tmux)
    /\ wpc' = CleanupAllWpc(tmux, wpc)
    /\ active_sessions' = CleanupAllActive(tmux, active_sessions)
    /\ pc' = NextPc /\ try_num' = NextTry /\ task_idx' = NextTaskIdx
    /\ active_count' = NextActiveCount
    /\ UNCHANGED <<besideRun, submissions,
                   cfgVars, envVars, sessions_file, lines_todo, active_lines, cur, ret,
                   stuck_sessions, status, age, cleaned>>

\* `if active_sessions == 0: break`; the check after the loop may still find
\* the budget used up (late) and run cleanup_all_sessions
WaitBreak ==
    /\ pc = "wait_count"
    /\ AllSessionsCompleted(active_sessions)
    /\ \E late \in BOOLEAN :
         /\ tmux' = IF late THEN CleanupAllTmux(tmux) ELSE tmux
         /\ wpc' = IF late THEN CleanupAllWpc(tmux, wpc) ELSE wpc
         /\ active_sessions' = IF late
                                 THEN CleanupAllActive(tmux, active_sessions)
                                 ELSE active_sessions
    /\ pc' = NextPc /\ try_num' = NextTry /\ task_idx' = NextTaskIdx
    /\ active_count' = NextActiveCount
    /\ UNCHANGED <<besideRun, submissions,
                   cfgVars, envVars, sessions_file, lines_todo, active_lines, cur, ret,
                   stuck_sessions, status, age, cleaned>>

\* sessions remain and no aggressive sweep is due: sleep, loop again
WaitSleep ==
    /\ pc = "wait_count"
    /\ ~AllSessionsCompleted(active_sessions)
    /\ pc' = "wait"
    /\ UNCHANGED <<besideRun, submissions,
                   cfgVars, envVars, try_num, task_idx, active_count, active_sessions,
                   sessions_file, lines_todo, active_lines, cur, ret,
                   stuck_sessions, tmux, wpc, status, age, cleaned>>

(***************************************************************************)
(* ChallengeRunner._aggressive_cleanup_stuck_sessions (every 300 s of a    *)
(* wait_for_completion loop).                                              *)
(***************************************************************************)
\* sessions the first pass collects
StuckSessions ==
    {a \in sessions_file :
        /\ tmux[a] = "alive"
        /\ \/ status[a] # "absent" /\ StatusStale(a)
           \/ status[a] = "absent" /\ NoStatusStuckAggr}

AggrScan ==
    /\ pc = "wait_count"
    /\ ~AllSessionsCompleted(active_sessions)
    /\ stuck_sessions' = StuckSessions
    /\ pc' = IF StuckSessions = {} THEN "wait" ELSE "aggr"
    /\ UNCHANGED <<besideRun, submissions,
                   cfgVars, envVars, try_num, task_idx, active_count, active_sessions,
                   sessions_file, lines_todo, active_lines, cur, ret, tmux,
                   wpc, status, age, cleaned>>

\* second pass, one stuck session: write COMPLETED_FAILED
AggrWrite ==
    /\ pc = "aggr"
    /\ LET a == SetMin(stuck_sessions)
       IN  /\ status' = [status EXCEPT ![a] = "COMPLETED_FAILED"]
           /\ age' = [age EXCEPT ![a] = 0]
           /\ cur' = a
    /\ pc' = "aggr_kill"
    /\ UNCHANGED <<besideRun, submissions,
                   cfgVars, envVars, try_num, task_idx, active_count, active_sessions,
                   sessions_file, lines_todo, active_lines, ret,
                   stuck_sessions, tmux, wpc, cleaned>>

\* kill_session and per-task cleanup of that session
AggrKill ==
    /\ pc = "aggr_kill"
    /\ tmux' = KillSessionTmux(tmux, cur)
    /\ wpc' = KillSessionWpc(tmux, wpc, cur)
    /\ active_sessions' = KillSessionActive(tmux, active_sessions, cur)
    /\ cleaned' = CleanupTask(cleaned, cur)
    /\ stuck_sessions' = stuck_sessions \ {cur}
    /\ pc' = IF stuck_sessions \ {cur} = {} THEN "wait" ELSE "aggr"
    /\ cur' = 0
    /\ UNCHANGED <<besideRun, submissions,
                   cfgVars, envVars, try_num, task_idx, active_count, sessions_file,
                   lines_todo, active_lines, ret, status, age>>

(***************************************************************************)
(* The run: scheduler, wrappers and environment interleaved.               *)
(***************************************************************************)
Init ==
    /\ SchedInit /\ CancelIdle /\ ScriptIdle /\ ParseIdle /\ BuilderIdle
    /\ ComposeIdle /\ StartupIdle
    /\ RewriteIdle
    /\ BatchIdle
    /\ CheckIdle
    /\ ClientIdle
    /\ CleanIdle
    /\ TaskIdle
    /\ SummaryIdle
    /\ JanitorIdle
    /\ ProbeIdle
    /\ ScopeIdle

Next ==
    \/ Launch
    \/ LaunchFails
    \/ DispatchPoll
    \/ DispatchCount
    \/ StartDrain
    \/ CfsLine
    \/ CfsWrite
    \/ CfsKill
    \/ CfsReturn
    \/ WaitPoll
    \/ WaitTimeout
    \/ WaitBreak
    \/ WaitSleep
    \/ AggrScan
    \/ AggrWrite
    \/ AggrKill
    \/ \E a \in Attempts : WrapperPrecheckFail(a)
    \/ \E a \in Attempts : WrapperInit(a)
    \/ \E a \in Attempts : WrapperFinish(a)
    \/ \E a \in Attempts : Tick(a)
    \/ \E a \in Attempts : SessionVanish(a)

Spec == Init /\ [][Next]_vars

(***************************************************************************)
(* Properties of the run.                                                  *)
(***************************************************************************)
\* attempts that were launched, whose session is alive and whose status is
\* not terminal
Running == {a \in Attempts : tmux[a] = "alive" /\ status[a] \notin TerminalStatus}

\* C1: in every reachable state the number of launched attempts whose
\* session is alive and not terminal is at most parallel_tasks.
C1_RunningWithinLimit == Cardinality(Running) <= parallel_tasks

\* the dispatch loop is held at the limit: a task is waiting while
\* parallel_tasks attempts are running
C1_Witness ==
    /\ pc = "cfs" /\ ret = "dispatch_count"
    /\ task_idx <= NumChallenges
    /\ Cardinality(Running) = parallel_tasks

\* C2: while the scheduler is in round N+1 (from the moment round N's
\* wait_for_completion has returned, so before any launch of round N+1) no
\* session of an earlier round exists, also after a max_wait_time exit.
C2_RoundsDoNotOverlap ==
    \A a \in Attempts : TryOf(a) < try_num => tmux[a] # "alive"

\* an attempt of round 2 runs after an attempt of round 1 was force-killed
\* at max_wait_time (still RUNNING, its line still in the file)
C2_Witness ==
    \E a, b \in Attempts :
        /\ TryOf(a) < TryOf(b)
        /\ tmux[b] = "alive"
        /\ tmux[a] = "gone" /\ status[a] = "RUNNING" /\ a \in sessions_file
        /\ vanished = 0

\* C3: when the run is over, the status file of every attempt submitted
\* for launch holds a terminal value.
C3_EveryAttemptTerminal ==
    pc = "done" => \A a \in Submitted : status[a] \in TerminalStatus

\* C4: once a status file holds a terminal value, no write of the wrapper
\* or of the supervisor sets it back to RUNNING.
C4_TerminalNotDowngraded ==
    [][\A a \in Attempts :
          status[a] \in TerminalStatus => status'[a] # "RUNNING"]_vars

\* both writers have written a terminal value to the same file: the
\* supervisor wrote COMPLETED_FAILED, then the wrapper COMPLETED_SUCCESS
C4_Witness ==
    /\ pc = "cfs_kill"
    /\ status[cur] = "COMPLETED_SUCCESS" /\ wpc[cur] = "exited"

\* C7: with per-task cleanup enabled, every launched attempt the supervisor
\* no longer tracks (its line is gone from the active sessions file, or the
\* run is over) had cleanup_task_resources invoked for its session.
C7_CleanupOnEveryExit ==
    enable_per_task_cleanup =>
        \A a \in Attempts :
            (tmux[a] # "none" /\ (a \notin sessions_file \/ pc = "done"))
                => a \in cleaned

\* C9: in a run where no session disappears on its own, an attempt whose
\* status file went stale (mtime older than Tstale) while RUNNING with a
\* live session, and that nobody has written since, does not stay like
\* that: when the run is over the supervisor has written COMPLETED_FAILED,
\* killed the session and run the per-task cleanup.
C9_StuckSessionFailed ==
    (pc = "done" /\ vanished = 0) =>
        \A a \in Attempts :
            StatusStale(a) =>
                /\ status[a] = "COMPLETED_FAILED"
                /\ tmux[a] = "gone"
                /\ enable_per_task_cleanup => a \in cleaned

(***************************************************************************)
(* ScriptSpec: one run of the wrapper script of create_session.  The       *)
(* initial state fixes what the run will meet: whether a log file is       *)
(* given (config.enable_logs), the exit status of the solver command and   *)
(* of tee, and whether the log holds one of the Docker error patterns.     *)
(***************************************************************************)
ScriptInputs ==
    [log_file : BOOLEAN, child_exit : ExitCodes, tee_exit : ExitCodes,
     signature : BOOLEAN]

ScriptInit ==
    /\ script_pc = "start"
    /\ script_in \in ScriptInputs
    /\ exit_code = -1
    /\ status_file = "absent"

ScriptRest == <<scopeVars,
    probeVars,
    janitorVars,
    summaryVars,
    taskVars,
    cleanVars,
    clientVars,
    checkVars,
    batchVars,
    rewriteVars,
    schedVars, startupVars, cancelVars,
    parseVars, builderVars, composeVars>>

\* run.py or python is missing: COMPLETED_FAILED, exit 1
ScriptPrecheckFail ==
    /\ script_pc = "start"
    /\ status_file' = "COMPLETED_FAILED"
    /\ script_pc' = "aborted"
    /\ UNCHANGED <<script_in, exit_code, ScriptRest>>

\* echo "RUNNING" > status_file
ScriptInitStatus ==
    /\ script_pc = "start"
    /\ status_file' = "RUNNING"
    /\ script_pc' = "validate"
    /\ UNCHANGED <<script_in, exit_code, ScriptRest>>

\* `bash -n` rejects the command file: COMPLETED_FAILED, exit 1
ScriptSyntaxFail ==
    /\ script_pc = "validate"
    /\ status_file' = "COMPLETED_FAILED"
    /\ script_pc' = "aborted"
    /\ UNCHANGED <<script_in, exit_code, ScriptRest>>

\* the command runs to its end, alone or piped through tee; exit_code=$?
ScriptRunCommand ==
    /\ script_pc = "validate"
    /\ exit_code' = ScriptExitCode(script_in.log_file, script_in.child_exit,
                                   script_in.tee_exit)
    /\ script_pc' = "ran"
    /\ UNCHANGED <<script_in, status_file, ScriptRest>>

\* the Docker error greps and the final status
ScriptWriteStatus ==
    /\ script_pc = "ran"
    /\ status_file' = ScriptStatus(exit_code, script_in.log_file,
                                   script_in.signature)
    /\ script_pc' = "finished"
    /\ UNCHANGED <<script_in, exit_code, ScriptRest>>

ScriptNext ==
    \/ ScriptPrecheckFail
    \/ ScriptInitStatus
    \/ ScriptSyntaxFail
    \/ ScriptRunCommand
    \/ ScriptWriteStatus

ScriptStart ==
    /\ ScriptInit /\ SchedIdle /\ ParseIdle /\ BuilderIdle /\ ComposeIdle
    /\ CancelIdle /\ StartupIdle
    /\ RewriteIdle
    /\ BatchIdle
    /\ CheckIdle
    /\ ClientIdle
    /\ CleanIdle
    /\ TaskIdle
    /\ SummaryIdle
    /\ JanitorIdle
    /\ ProbeIdle
    /\ ScopeIdle

ScriptSpec == ScriptStart /\ [][ScriptNext]_vars

\* C10: once the wrapper script has run the solver command to completion,
\* the status file holds COMPLETED_SUCCESS exactly when the solver's exit
\* code is 0 and COMPLETED_FAILED otherwise, with a log file (output piped
\* through tee) and without one.
C10_StatusFollowsChildExit ==
    script_pc = "finished" =>
        status_file = IF script_in.child_exit = 0 THEN "COMPLETED_SUCCESS"
                                                  ELSE "COMPLETED_FAILED"

(***************************************************************************)
(* ParseSpec: DockerManager.cleanup_task_resources on the session name of  *)
(* one attempt.  A string is a sequence of pieces; the piece "_" is the    *)
(* underscore, every other piece is a run of characters without one.       *)
(***************************************************************************)
\* str(n) of the small numbers of the model
Digits == <<"1", "2", "3", "4", "5", "6", "7", "8", "9">>
Str(n) == <<Digits[n]>>

RECURSIVE Join(_, _)
\* sep.join(strs)
Join(strs, sep) ==
    IF Len(strs) = 0 THEN <<>>
    ELSE IF Len(strs) = 1 THEN strs[1]
    ELSE strs[1] \o sep \o Join(Tail(strs), sep)

RECURSIVE SplitFrom(_, _)
\* str.split('_') with the part being read carried along
SplitFrom(s, part) ==
    IF Len(s) = 0 THEN <<part>>
    ELSE IF Head(s) = "_" THEN <<part>> \o SplitFrom(Tail(s), <<>>)
    ELSE SplitFrom(Tail(s), Append(part, Head(s)))

\* s.split('_')
Split(s) == SplitFrom(s, <<>>)

\* s.replace('try', '')
ReplaceTry(s) == SelectSeq(s, LAMBDA x : x # "try")

\* hostnames, process ids and timestamps (time % 1000000) of the model
MachineIds == {<<"ctfhost">>, <<"gpu-node-2">>}
ProcessIds == {<<"4242">>}
Timestamps == {<<"171">>, <<"172">>}
\* challenge ids of the dataset, with and without underscores
ChallengeIds == {<<"pwn1">>, <<"web", "_", "login">>,
                 <<"2019", "_", "rev", "_", "gibberish">>}

\* _generate_execution_id: f"{machine_id}_{process_id}_{timestamp}"
ExecutionId(t) == Join(<<t.machine_id, t.process_id, t.timestamp>>, <<"_">>)

\* TmuxManager.session_prefix: f"swe_{execution_id}"
SessionPrefix(t) == Join(<<<<"swe">>, ExecutionId(t)>>, <<"_">>)

\* run_parallel: f"{session_prefix}_{instance_id}_{challenge_id}_try{try_num}"
SessionName(t) ==
    Join(<<SessionPrefix(t), Str(t.instance_id), t.challenge_id,
           <<"try">> \o Str(t.try_num)>>, <<"_">>)

\* f"{execution_id}-parallel-{instance_id}-{challenge_id}-try{try_num}",
\* as _build_run_command and cleanup_task_resources both format it
ContainerName(execution_id, instance, chal, try) ==
    execution_id \o <<"-", "parallel", "-">> \o instance \o <<"-">> \o chal
        \o <<"-", "try">> \o try

\* the --container_name the launcher gives the attempt
LauncherContainerName(t) ==
    ContainerName(ExecutionId(t), Str(t.instance_id), t.challenge_id,
                  Str(t.try_num))

Tasks ==
    [machine_id : MachineIds, process_id : ProcessIds,
     timestamp : Timestamps, instance_id : 1..NumChallenges,
     challenge_id : ChallengeIds, try_num : StartTry..TryTimes]

ParseInit ==
    /\ parse_pc = "call"
    /\ task \in Tasks
    /\ parts = <<>>
    /\ instance_id = <<>>
    /\ challenge_id = <<>>
    /\ try_number = <<>>
    /\ container_name = <<>>

ParseRest == <<scopeVars,
    probeVars,
    janitorVars,
    summaryVars,
    taskVars,
    cleanVars,
    clientVars,
    checkVars,
    batchVars,
    rewriteVars,
    schedVars, startupVars, cancelVars,
    scriptVars, builderVars, composeVars>>

\* `if not self.client: return`
ParseNoClient ==
    /\ parse_pc = "call"
    /\ parse_pc' = "skipped"
    /\ UNCHANGED <<task, parts, instance_id, challenge_id, try_number,
                   container_name, ParseRest>>

\* parts = session_name.split('_'); if len(parts) >= 5
ParseSplit ==
    /\ parse_pc = "call"
    /\ parts' = Split(SessionName(task))
    /\ parse_pc' = IF Len(parts') >= 5 THEN "extract" ELSE "unparsed"
    /\ UNCHANGED <<task, instance_id, challenge_id, try_number,
                   container_name, ParseRest>>

\* parts[2], parts[3], parts[4].replace('try', '')  (Python counts from 0)
ParseExtract ==
    /\ parse_pc = "extract"
    /\ instance_id' = parts[3]
    /\ challenge_id' = parts[4]
    /\ try_number' = ReplaceTry(parts[5])
    /\ parse_pc' = "target"
    /\ UNCHANGED <<task, parts, container_name, ParseRest>>

\* container_name = f"..."; self._cleanup_task_container(container_name)
ParseTarget ==
    /\ parse_pc = "target"
    /\ container_name' = ContainerName(ExecutionId(task), instance_id,
                                       challenge_id, try_number)
    /\ parse_pc' = "done"
    /\ UNCHANGED <<task, parts, instance_id, challenge_id, try_number,
                   ParseRest>>

ParseNext ==
    \/ ParseNoClient
    \/ ParseSplit
    \/ ParseExtract
    \/ ParseTarget

ParseStart ==
    /\ ParseInit /\ SchedIdle /\ ScriptIdle /\ BuilderIdle /\ ComposeIdle
    /\ CancelIdle /\ StartupIdle
    /\ RewriteIdle
    /\ BatchIdle
    /\ CheckIdle
    /\ ClientIdle
    /\ CleanIdle
    /\ TaskIdle
    /\ SummaryIdle
    /\ JanitorIdle
    /\ ProbeIdle
    /\ ScopeIdle

ParseSpec == ParseStart /\ [][ParseNext]_vars

\* C8: when cleanup_task_resources has worked on the session name of an
\* attempt, what it extracted is the attempt's instance id, challenge id and
\* try number, and the container it targets has the name the launcher gave
\* the attempt's container.
C8_ParseRecoversAttempt ==
    parse_pc = "done" =>
        /\ instance_id = Str(task.instance_id)
        /\ challenge_id = task.challenge_id
        /\ try_number = Str(task.try_num)
        /\ container_name = LauncherContainerName(task)

(***************************************************************************)
(* BuilderSpec: the server description InstanceBuilder gives one CTF       *)
(* challenge.  A description is the sequence of the pieces its f-string    *)
(* puts together (the backquotes it sets around names are left out);      *)
(* ports are written as their decimal strings.                             *)
(***************************************************************************)
\* challenge.json: "box", "internal_port", "port", "category", "proto"
Boxes == {None, "", "web.chal"}
JsonInternalPorts == {None, "80"}
JsonPorts == {None, "8080"}
Categories == {"web", "misc", "pwn"}
Protos == {None, "nc", "http"}
\* host ports a port mapping may name
MappedPorts == {"10000", "10080"}

ChallengeJsons ==
    [box : Boxes, internal_port : JsonInternalPorts, port : JsonPorts,
     category : Categories, proto : Protos]

\* dict[str, int] from internal ports to external ports
PortMaps == UNION {[D -> MappedPorts] : D \in SUBSET {"80", "8080"}}

\* Python `a or b`
Or(a, b) == IF a \in {None, ""} THEN b ELSE a

\* the description set_server_description stores; external_port is
\* accepted and left out: service name and internal port always
ServerDescriptionExternal(ch, server_name, port, external_port) ==
    IF server_name = None \/ port = None THEN <<>>
    ELSE IF external_port # None
      THEN <<"The challenge server is running on ", "localhost",
             " port ", external_port>>
      ELSE <<"The challenge server is running on ", server_name,
             " port ", port>>
ServerDescription(ch, server_name, port, external_port) ==
    IF server_name = None \/ port = None THEN <<>>
    ELSE IF ch.category \in {"web", "misc"} /\ ch.proto # "nc"
      THEN <<"The challenge web server is running on ", server_name,
             " port ", port,
             " and you can access it from within the container environment",
             " using ", "curl http://", server_name, ":", port, ".">>
      ELSE <<"The challenge server is running on ", server_name,
             " port ", port,
             " and you can access it from within the container environment",
             " using ", "connect_start ", server_name, " ", port, ".">>

BuilderInit ==
    /\ builder_pc = "new"
    /\ challenge \in ChallengeJsons

BuilderRest == <<scopeVars,
    probeVars,
    janitorVars,
    summaryVars,
    taskVars,
    cleanVars,
    clientVars,
    checkVars,
    batchVars,
    rewriteVars,
    schedVars, startupVars, cancelVars,
    scriptVars, parseVars, composeVars>>

\* set_problem_statement_from_challenge_json, as far as the server goes:
\* port, server_name, then set_server_description(server_name, port)
SetProblemStatementFromChallengeJson ==
    /\ builder_pc = "new"
    /\ LET port == Or(challenge.internal_port, challenge.port)
           server_name == IF challenge.box # None
                            THEN Or(challenge.box, "127.0.0.1")
                            ELSE ""
       IN  challenge' =
             [box |-> challenge.box,
              internal_port |-> challenge.internal_port,
              category |-> challenge.category,
              proto |-> challenge.proto,
              port |-> port,
              server_name |-> server_name,
              server_description |->
                  ServerDescription(challenge, server_name, port, None),
              external_port |-> None,
              port_mapping |-> <<>>]
    /\ builder_pc' = "loaded"
    /\ UNCHANGED BuilderRest

\* set_server_description(server_name, port, external_port) on the loaded
\* challenge
SetServerDescription ==
    /\ builder_pc = "loaded"
    /\ \E external_port \in MappedPorts \cup {None} :
         challenge' =
           [challenge EXCEPT !.server_description =
              ServerDescription(challenge, challenge.server_name,
                                challenge.port, external_port)]
    /\ UNCHANGED <<builder_pc, BuilderRest>>

\* update_server_description_with_port_mapping(port_mappings)
UpdateServerDescriptionWithPortMapping ==
    /\ builder_pc = "loaded"
    /\ \E pm \in PortMaps :
         IF challenge.port # None /\ challenge.port \in DOMAIN pm
           THEN challenge' =
                  [challenge EXCEPT
                     !.server_description =
                        ServerDescription(challenge, challenge.server_name,
                                          challenge.port, pm[challenge.port]),
                     !.external_port = pm[challenge.port],
                     !.port_mapping = pm]
           ELSE UNCHANGED challenge
    /\ UNCHANGED <<builder_pc, BuilderRest>>

BuilderNext ==
    \/ SetProblemStatementFromChallengeJson
    \/ SetServerDescription
    \/ UpdateServerDescriptionWithPortMapping

BuilderStart ==
    /\ BuilderInit /\ SchedIdle /\ ScriptIdle /\ ParseIdle /\ ComposeIdle
    /\ CancelIdle /\ StartupIdle
    /\ RewriteIdle
    /\ BatchIdle
    /\ CheckIdle
    /\ ClientIdle
    /\ CleanIdle
    /\ TaskIdle
    /\ SummaryIdle
    /\ JanitorIdle
    /\ ProbeIdle
    /\ ScopeIdle

BuilderSpec == BuilderStart /\ [][BuilderNext]_vars

\* pieces of a description
Pieces(d) == {d[i] : i \in DOMAIN d}
\* the challenge names a service and an internal port
HasAliasAndPort ==
    /\ challenge.box \notin {None, ""}
    /\ Or(challenge.internal_port, challenge.port) # None

\* C6: the server description of a loaded challenge that has a service
\* alias and an internal port names that alias and that port, with
\* `curl http://alias:port` for a web or misc challenge whose proto is not
\* nc and with `connect_start alias port` otherwise, whatever external port
\* or port mapping it was given since: it never holds localhost or an
\* external port.
C6_DescriptionUsesAliasAndInternalPort ==
    (builder_pc = "loaded" /\ HasAliasAndPort) =>
        LET alias == challenge.box
            port == Or(challenge.internal_port, challenge.port)
            d == challenge.server_description
            access == SubSeq(d, 7, Len(d))
        IN  /\ Len(d) >= 7
            /\ SubSeq(d, 2, 4) = <<alias, " port ", port>>
            /\ IF challenge.category \in {"web", "misc"}
                  /\ challenge.proto # "nc"
                 THEN access = <<"curl http://", alias, ":", port, ".">>
                 ELSE access = <<"connect_start ", alias, " ", port, ".">>
            /\ "localhost" \notin Pieces(d)
            /\ Pieces(d) \cap MappedPorts = {}

\* a web challenge whose description was rebuilt for a port mapping
C6_Witness ==
    /\ builder_pc = "loaded" /\ HasAliasAndPort
    /\ challenge.external_port # None
    /\ challenge.category = "web" /\ challenge.proto # "nc"
    /\ challenge.server_description # <<>>

(***************************************************************************)
(* ComposeSpec: the attempts of one host bring their challenge stacks up   *)
(* with get_docker_compose(dynamic_ports=True) and take them down again;   *)
(* the calls of different attempts interleave between any two steps.       *)
(***************************************************************************)
Stacks == 1..NumStacks

DEFAULT_PORT_RANGE_START == 10000
DEFAULT_PORT_RANGE_END == DEFAULT_PORT_RANGE_START + NumHostPorts - 1
PortRange == DEFAULT_PORT_RANGE_START..DEFAULT_PORT_RANGE_END

\* internal ports of a compose manifest, in the order of the file
Manifests == {<<"80">>, <<"8080">>, <<"80", "8080">>}

\* is_port_in_use: the bind test fails on a port that is bound
IsPortInUse(port) == port \in host_bound

\* host ports of a mapping
Externals(pm) == {pm[p] : p \in DOMAIN pm}
\* port_mappings[internal_port] = available_port
MapPort(pm, p, port) ==
    [x \in DOMAIN pm \cup {p} |-> IF x = p THEN port ELSE pm[x]]

ComposeInit ==
    /\ compose_pc = [s \in Stacks |-> "idle"]
    /\ ports_todo = [s \in Stacks |-> <<>>]
    /\ port_mappings = [s \in Stacks |-> <<>>]
    /\ started = [s \in Stacks |-> FALSE]
    /\ host_bound = {}

ComposeRest == <<scopeVars,
    probeVars,
    janitorVars,
    summaryVars,
    taskVars,
    cleanVars,
    clientVars,
    checkVars,
    batchVars,
    rewriteVars,
    schedVars, startupVars, cancelVars,
    scriptVars, parseVars, builderVars>>

\* get_docker_compose is entered: the manifest is read, port_mappings = {}
GetDockerCompose(s) ==
    /\ compose_pc[s] = "idle"
    /\ \E m \in Manifests : ports_todo' = [ports_todo EXCEPT ![s] = m]
    /\ port_mappings' = [port_mappings EXCEPT ![s] = <<>>]
    /\ compose_pc' = [compose_pc EXCEPT ![s] = "alloc"]
    /\ UNCHANGED <<started, host_bound, ComposeRest>>

\* get_available_port() for the next internal port: any port of the
\* shuffled range that is_port_in_use finds free; nothing holds the port
\* afterwards.  With no free port the RuntimeError is logged and the
\* internal port stays unmapped.
GetAvailablePort(s) ==
    /\ compose_pc[s] = "alloc" /\ ports_todo[s] # <<>>
    /\ LET free == {port \in PortRange : ~IsPortInUse(port)}
       IN  IF free = {}
             THEN UNCHANGED port_mappings
             ELSE \E port \in free :
                    port_mappings' =
                      [port_mappings EXCEPT ![s] =
                         MapPort(@, Head(ports_todo[s]), port)]
    /\ ports_todo' = [ports_todo EXCEPT ![s] = Tail(@)]
    /\ UNCHANGED <<compose_pc, started, host_bound, ComposeRest>>

\* `docker compose up -d`, then return (path, port_mappings) whatever the
\* outcome.  Docker publishes the mapped ports when all of them are free
\* and refuses to start the services otherwise; without a mapping the
\* original file is used, whose host ports lie outside the model.
ComposeUp(s) ==
    /\ compose_pc[s] = "alloc" /\ ports_todo[s] = <<>>
    /\ LET pm == port_mappings[s]
           publishable ==
               /\ Externals(pm) \cap host_bound = {}
               /\ \A p, q \in DOMAIN pm : pm[p] = pm[q] => p = q
       IN  IF DOMAIN pm = {}
             THEN /\ \E ok \in BOOLEAN : started' = [started EXCEPT ![s] = ok]
                  /\ UNCHANGED host_bound
             ELSE IF publishable
               THEN /\ started' = [started EXCEPT ![s] = TRUE]
                    /\ host_bound' = host_bound \cup Externals(pm)
               ELSE /\ started' = [started EXCEPT ![s] = FALSE]
                    /\ UNCHANGED host_bound
    /\ compose_pc' = [compose_pc EXCEPT ![s] = "up"]
    /\ UNCHANGED <<ports_todo, port_mappings, ComposeRest>>

\* terminate_docker_compose: `docker compose down` releases what the
\* stack had published
TerminateDockerCompose(s) ==
    /\ compose_pc[s] = "up"
    /\ host_bound' = IF started[s]
                       THEN host_bound \ Externals(port_mappings[s])
                       ELSE host_bound
    /\ started' = [started EXCEPT ![s] = FALSE]
    /\ port_mappings' = [port_mappings EXCEPT ![s] = <<>>]
    /\ compose_pc' = [compose_pc EXCEPT ![s] = "idle"]
    /\ UNCHANGED <<ports_todo, ComposeRest>>

ComposeNext ==
    \/ \E s \in Stacks : GetDockerCompose(s)
    \/ \E s \in Stacks : GetAvailablePort(s)
    \/ \E s \in Stacks : ComposeUp(s)
    \/ \E s \in Stacks : TerminateDockerCompose(s)

ComposeStart ==
    /\ ComposeInit /\ SchedIdle /\ ScriptIdle /\ ParseIdle /\ BuilderIdle
    /\ CancelIdle /\ StartupIdle
    /\ RewriteIdle
    /\ BatchIdle
    /\ CheckIdle
    /\ ClientIdle
    /\ CleanIdle
    /\ TaskIdle
    /\ SummaryIdle
    /\ JanitorIdle
    /\ ProbeIdle
    /\ ScopeIdle

ComposeSpec == ComposeStart /\ [][ComposeNext]_vars

\* C5: two attempts that both hold a challenge stack brought up by
\* get_docker_compose never have the same external port for the same
\* internal port.
C5_ExternalPortsDistinct ==
    \A a, b \in Stacks :
        (a # b /\ compose_pc[a] = "up" /\ compose_pc[b] = "up") =>
            \A p \in DOMAIN port_mappings[a] \cap DOMAIN port_mappings[b] :
                port_mappings[a][p] # port_mappings[b][p]

\* C11: once the wrapper script has run the solver command to completion
\* with a log file, and the log holds a Docker error signature, the status
\* file holds COMPLETED_FAILED, whatever the exit code of the solver was,
\* 0 included.
C11_DockerSignatureFails ==
    (script_pc = "finished" /\ script_in.log_file /\ script_in.signature) =>
        status_file = "COMPLETED_FAILED"

(***************************************************************************)
(* CancelSpec: the run of Spec with the handler ChallengeRunner installs   *)
(* for SIGINT and SIGTERM.  The handler runs between any two steps of the  *)
(* scheduler: cleanup(), then sys.exit(1), which unwinds run_parallel and  *)
(* main (neither catches SystemExit).                                      *)
(***************************************************************************)
CancelStart ==
    /\ SchedInit
    /\ enable_logs = FALSE
    /\ enable_per_task_cleanup = TRUE
    /\ disable_cleanup \in BOOLEAN
    /\ swept = FALSE
    /\ signalled = FALSE
    /\ exit_status = -1
    /\ ScriptIdle /\ ParseIdle /\ BuilderIdle /\ ComposeIdle /\ StartupIdle
    /\ RewriteIdle
    /\ BatchIdle
    /\ CheckIdle
    /\ ClientIdle
    /\ CleanIdle
    /\ TaskIdle
    /\ SummaryIdle
    /\ JanitorIdle
    /\ ProbeIdle
    /\ ScopeIdle

CancelRest == <<scopeVars,
    probeVars,
    janitorVars,
    summaryVars,
    taskVars,
    cleanVars,
    clientVars,
    checkVars,
    batchVars,
    rewriteVars,
    startupVars, scriptVars, parseVars, builderVars,
                composeVars>>

\* comprehensive_cleanup(execution_id), unless config.disable_cleanup
FinalSweep(done) == done \/ ~disable_cleanup

\* _signal_handler: cleanup() kills every session tmux lists under the
\* prefix, unlinks the active sessions file, removes the files matching
\* logs/status_{execution_id}*.txt (the status files lie in the directory
\* logs/status_{execution_id}/ and do not match), runs the Docker sweep
\* unless it is disabled; then sys.exit(1)
SignalHandler ==
    /\ exit_status = -1
    /\ tmux' = CleanupAllTmux(tmux)
    /\ active_sessions' = CleanupAllActive(tmux, active_sessions)
    /\ wpc' = CleanupAllWpc(tmux, wpc)
    /\ sessions_file' = {}
    /\ swept' = FinalSweep(swept)
    /\ signalled' = TRUE
    /\ exit_status' = 1
    /\ pc' = "exited"
    /\ UNCHANGED <<cfgVars, envVars, try_num, task_idx, active_count,
                   sweepVars, status, age, cleaned, disable_cleanup,
                   submissions, CancelRest>>

\* run_parallel returns after the last round: final Docker cleanup unless
\* disabled; main prints the summary and the process ends with code 0
MainReturn ==
    /\ pc = "done" /\ exit_status = -1
    /\ swept' = FinalSweep(swept)
    /\ exit_status' = 0
    /\ pc' = "exited"
    /\ UNCHANGED <<cfgVars, envVars, try_num, task_idx, active_count,
                   sweepVars, active_sessions, sessions_file, tmux, wpc,
                   status, age, cleaned, disable_cleanup, signalled,
                   submissions, CancelRest>>

CancelNext ==
    \/ Next
    \/ SignalHandler
    \/ MainReturn

CancelSpec == CancelStart /\ [][CancelNext]_vars

\* C12: once SIGINT or SIGTERM has been handled, no session of the
\* execution is alive (none was left and none is launched afterwards), the
\* Docker sweep of the execution was invoked and the process has exited
\* with a non-zero code.
C12_SignalEndsRun ==
    signalled =>
        /\ ListSessions(tmux) = {}
        /\ swept
        /\ exit_status > 0

\* C12, amended: the same, the Docker sweep being invoked when
\* config.disable_cleanup is not set.
C12_SignalEndsRunUnlessDisabled ==
    signalled =>
        /\ ListSessions(tmux) = {}
        /\ (~disable_cleanup => swept)
        /\ exit_status > 0

\* the signal arrived while an attempt was running and another one was
\* still waiting to be launched
C12_Witness ==
    /\ signalled /\ swept /\ exit_status = 1
    /\ \E a, b \in Attempts :
         /\ status[a] = "RUNNING" /\ tmux[a] = "gone" /\ wpc[a] = "dead"
         /\ tmux[b] = "none" /\ TryOf(b) = TryOf(a)

(***************************************************************************)
(* StartupSpec: main() from the loaded RunnerConfig to run_parallel.  Any  *)
(* exception on the way is caught by main and ends the process with        *)
(* sys.exit(1).                                                            *)
(***************************************************************************)
ModelTypes == {"aws", "openai", "azure"}
AwsVars == {"ISENGARD_PRODUCTION_ACCOUNT", "AWS_ACCESS_KEY_ID",
            "AWS_SECRET_ACCESS_KEY", "AWS_SESSION_TOKEN"}
OpenAiVars == {"OPENAI_API_KEY", "OPENAI_API_BASE_URL"}

Configs ==
    [try_times : (-1)..TryTimes, start_try : (-1)..(TryTimes + 1),
     parallel_tasks : (-1)..MaxParallel, model_type : ModelTypes]

\* RunnerConfig.validate_configuration does not raise
ConfigurationValidLoose(c) ==
    ~(c.try_times < 1) /\ ~(c.parallel_tasks < 1) /\ ~(c.start_try < 1)
ConfigurationValid(c) ==
    /\ ~(c.try_times < 1)
    /\ ~(c.parallel_tasks < 1)
    /\ ~(c.start_try < 1)
    /\ ~(c.start_try > c.try_times)

\* RunnerConfig.validate_environment_variables does not raise
EnvironmentValid(c, env) ==
    IF c.model_type = "aws" THEN AwsVars \ env = {}
    ELSE IF c.model_type = "openai" THEN OpenAiVars \ env = {}
    ELSE FALSE

StartupInit ==
    /\ main_pc = "validate_configuration"
    /\ config \in Configs
    /\ environ \in SUBSET (AwsVars \cup OpenAiVars)
    /\ dataset_exists \in BOOLEAN
    /\ run_entered = FALSE
    /\ main_exit = -1

StartupRest == <<scopeVars,
    probeVars,
    janitorVars,
    summaryVars,
    taskVars,
    cleanVars,
    clientVars,
    checkVars,
    batchVars,
    rewriteVars,
    schedVars, cancelVars, scriptVars, parseVars, builderVars,
    composeVars>>

\* config.validate_configuration()
ValidateConfiguration ==
    /\ main_pc = "validate_configuration"
    /\ IF ConfigurationValid(config)
         THEN main_pc' = "validate_environment" /\ UNCHANGED main_exit
         ELSE main_pc' = "exited" /\ main_exit' = 1
    /\ UNCHANGED <<config, environ, dataset_exists, run_entered, StartupRest>>

\* config.validate_environment_variables()
ValidateEnvironmentVariables ==
    /\ main_pc = "validate_environment"
    /\ IF EnvironmentValid(config, environ)
         THEN main_pc' = "construct" /\ UNCHANGED main_exit
         ELSE main_pc' = "exited" /\ main_exit' = 1
    /\ UNCHANGED <<config, environ, dataset_exists, run_entered, StartupRest>>

\* ChallengeRunner(config): _load_challenges raises FileNotFoundError when
\* the dataset file does not exist
ConstructRunner ==
    /\ main_pc = "construct"
    /\ IF dataset_exists
         THEN main_pc' = "run_parallel" /\ UNCHANGED main_exit
         ELSE main_pc' = "exited" /\ main_exit' = 1
    /\ UNCHANGED <<config, environ, dataset_exists, run_entered, StartupRest>>

\* runner.run_parallel() and print_summary(): the attempts are launched;
\* the run ends with 0, or with 1 when it raises
RunParallel ==
    /\ main_pc = "run_parallel"
    /\ run_entered' = TRUE
    /\ main_pc' = "exited"
    /\ \E code \in {0, 1} : main_exit' = code
    /\ UNCHANGED <<config, environ, dataset_exists, StartupRest>>

StartupNext ==
    \/ ValidateConfiguration
    \/ ValidateEnvironmentVariables
    \/ ConstructRunner
    \/ RunParallel

StartupStart ==
    /\ StartupInit /\ SchedIdle /\ CancelIdle /\ ScriptIdle /\ ParseIdle
    /\ BuilderIdle /\ ComposeIdle
    /\ RewriteIdle
    /\ BatchIdle
    /\ CheckIdle
    /\ ClientIdle
    /\ CleanIdle
    /\ TaskIdle
    /\ SummaryIdle
    /\ JanitorIdle
    /\ ProbeIdle
    /\ ScopeIdle

StartupSpec == StartupStart /\ [][StartupNext]_vars

\* a credential variable the selected backend requires is missing
MissingCredential ==
    \/ config.model_type = "aws" /\ \E v \in AwsVars : v \notin environ
    \/ config.model_type = "openai" /\ \E v \in OpenAiVars : v \notin environ

\* C13: with try_times < 1, start_try < 1, start_try > try_times,
\* parallel_tasks < 1, a missing credential variable of the selected
\* backend or a missing dataset file, run_parallel is never entered (no
\* attempt is launched) and main ends with exit code 1.
C13_InvalidRunExitsOne ==
    ( \/ config.try_times < 1
      \/ config.start_try < 1
      \/ config.start_try > config.try_times
      \/ config.parallel_tasks < 1
      \/ MissingCredential
      \/ ~dataset_exists )
    => /\ ~run_entered
       /\ main_pc # "run_parallel"
       /\ main_pc = "exited" => main_exit = 1

\* a run whose only defect is start_try > try_times has ended
C13_Witness ==
    /\ main_pc = "exited" /\ main_exit = 1
    /\ config.try_times >= 1 /\ config.start_try > config.try_times
    /\ config.parallel_tasks >= 1
    /\ ~MissingCredential /\ config.model_type = "aws" /\ dataset_exists

(***************************************************************************)
(* RoundsSpec: the run of Spec for every start_try..try_times the          *)
(* configuration check lets through (1 <= start_try <= try_times), without *)
(* per-attempt log files and with per-task cleanup.                        *)
(***************************************************************************)
RoundsStart ==
    /\ try_times \in 1..TryTimes
    /\ start_try \in 1..try_times
    /\ RunStart
    /\ enable_logs = FALSE
    /\ enable_per_task_cleanup = TRUE
    /\ CancelIdle /\ ScriptIdle /\ ParseIdle /\ BuilderIdle /\ ComposeIdle
    /\ StartupIdle
    /\ RewriteIdle
    /\ BatchIdle
    /\ CheckIdle
    /\ ClientIdle
    /\ CleanIdle
    /\ TaskIdle
    /\ SummaryIdle
    /\ JanitorIdle
    /\ ProbeIdle
    /\ ScopeIdle

RoundsSpec == RoundsStart /\ [][Next]_vars

\* the tries a run is configured to make
Rounds == start_try..try_times

\* the tries for which some attempt was handed to create_session
RoundsExecuted == {TryOf(a) : a \in {b \in Attempts : submissions[b] > 0}}

\* C14: a run that is not interrupted hands every attempt (challenge,
\* try_number) with start_try <= try_number <= try_times to create_session
\* exactly once and no other attempt ever, and when it is done it has
\* executed try_times - start_try + 1 rounds (one when both are 1).
C14_OneLaunchPerAttempt ==
    /\ \A a \in Attempts :
          /\ submissions[a] <= 1
          /\ submissions[a] = 1 => TryOf(a) \in Rounds
    /\ pc = "done" =>
          /\ \A a \in Attempts : TryOf(a) \in Rounds => submissions[a] = 1
          /\ Cardinality(RoundsExecuted) = try_times - start_try + 1
          /\ (start_try = 1 /\ try_times = 1) =>
                Cardinality(RoundsExecuted) = 1

\* a run of one round is done, a failed launch included
C14_Witness ==
    /\ pc = "done"
    /\ start_try = 1 /\ try_times = 1
    /\ \A a \in Attempts : submissions[a] = (IF TryOf(a) = 1 THEN 1 ELSE 0)
    /\ \E a \in Attempts : submissions[a] = 1 /\ tmux[a] = "none"
                           /\ status[a] = "absent"

\* C15: with parallel_tasks = 1 the session of an attempt that is not the
\* first of its round is created only when the attempt before it in the
\* round has a terminal status and its session is gone.
C15_SerialInOrder ==
    [][\A a \in Attempts :
          (/\ parallel_tasks = 1
           /\ InstanceOf(a) > 1
           /\ tmux[a] = "none" /\ tmux'[a] = "alive")
          => /\ status[a - 1] \in TerminalStatus
             /\ tmux[a - 1] # "alive"]_vars

\* the same order holds for every attempt whose predecessor in the round
\* did get a session: only a failed create_session breaks it
C15_SerialWhenLaunched ==
    [][\A a \in Attempts :
          (/\ parallel_tasks = 1
           /\ InstanceOf(a) > 1
           /\ tmux[a - 1] # "none"
           /\ tmux[a] = "none" /\ tmux'[a] = "alive")
          => /\ status[a - 1] \in TerminalStatus
             /\ tmux[a - 1] # "alive"]_vars

(***************************************************************************)
(* RewriteSpec: create_dynamic_docker_compose and get_docker_compose on    *)
(* the parsed compose manifest.  A name is the sequence of the parts that  *)
(* "-" joins, so appending a suffix is appending a part.  A dict is the    *)
(* sequence of its (key, value) pairs in insertion order.  A port entry    *)
(* is the string "EXT:INT" (pair), a bare integer INT (int) or anything    *)
(* else YAML allows (other); INT is kept as the string the code makes of   *)
(* it.  get_available_port is the next element of a sequence of outcomes:  *)
(* a port of the range, or 0 for its RuntimeError.                         *)
(***************************************************************************)
CTFNET == <<"ctfnet">>
Suffixes == {"s1", "s2"}

\* f"{name}-{container_name_suffix}"
WithSuffix(name, suffix) == name \o <<suffix>>

\* get_docker_compose: dynamic_network_name = f"ctfnet-{suffix}"
DynamicNetworkName(suffix) == WithSuffix(CTFNET, suffix)

\* key in d
DictHas(d, k) == \E i \in 1..Len(d) : d[i][1] = k
\* d[key]
DictGet(d, k) == d[CHOOSE i \in 1..Len(d) : d[i][1] = k][2]
\* d[key] = value
DictSet(d, k, v) ==
    IF DictHas(d, k)
      THEN [i \in 1..Len(d) |-> IF d[i][1] = k THEN <<k, v>> ELSE d[i]]
      ELSE Append(d, <<k, v>>)

\* `if port_mappings`: neither None nor empty
Truthy(pm) == ~pm.none /\ pm.items # <<>>

PortPair(ext, int) == [kind |-> "pair", external |-> ext, internal |-> int]
PortInt(int) == [kind |-> "int", external |-> 0, internal |-> int]
PortOther == [kind |-> "other", external |-> 0, internal |-> "long"]

\* outcomes of one get_available_port call
AllocOutcomes == PortRange \cup {0}
Oracles(n) == [1..n -> AllocOutcomes]

RECURSIVE RewritePorts(_, _, _, _)
\* the loop over new_service_config["ports"]; gives the new list, the
\* port_mappings as the loop leaves them and the outcomes not yet used
RewritePorts(entries, pm, oracle, new_ports) ==
    IF Len(entries) = 0
      THEN [ports |-> new_ports, pm |-> pm, oracle |-> oracle]
      ELSE
        LET port_mapping == Head(entries)
            internal_port == port_mapping.internal
            available_port == Head(oracle)
        IN  IF port_mapping.kind = "other"
              THEN RewritePorts(Tail(entries), pm, oracle,
                                Append(new_ports, port_mapping))
            ELSE IF Truthy(pm) /\ DictHas(pm.items, internal_port)
              THEN RewritePorts(Tail(entries), pm, oracle,
                     Append(new_ports,
                            PortPair(DictGet(pm.items, internal_port),
                                     internal_port)))
            ELSE IF available_port = 0
              THEN RewritePorts(Tail(entries), pm, Tail(oracle),
                                Append(new_ports, port_mapping))
            ELSE RewritePorts(Tail(entries),
                   IF pm.none THEN pm
                   ELSE Mappings(DictSet(pm.items, internal_port,
                                         available_port)),
                   Tail(oracle),
                   Append(new_ports, PortPair(available_port, internal_port)))

\* `elif port_mappings`: a service without ports gets every mapping
InjectedPorts(pm) ==
    [i \in 1..Len(pm.items) |-> PortPair(pm.items[i][2], pm.items[i][1])]

RenameNetKeep(net, dynamic_network_name) == net

\* a network reference of a service names dynamic_network_name for ctfnet
RenameNet(net, dynamic_network_name) ==
    IF net = CTFNET THEN dynamic_network_name ELSE net

RECURSIVE RenameDict(_, _, _)
\* the loop over a dict of networks: new_networks[name] = net_config
RenameDict(items, dynamic_network_name, new_networks) ==
    IF Len(items) = 0 THEN new_networks
    ELSE RenameDict(Tail(items), dynamic_network_name,
                    DictSet(new_networks,
                            RenameNet(Head(items)[1], dynamic_network_name),
                            Head(items)[2]))

\* "networks" of a service: absent, a list of names (each paired with
\* None) or a dict name -> configuration with the aliases
ServiceNetworks(networks, dynamic_network_name) ==
    IF networks.form = "list"
      THEN [networks EXCEPT !.items =
              [i \in 1..Len(@) |->
                 <<RenameNet(@[i][1], dynamic_network_name), @[i][2]>>]]
    ELSE IF networks.form = "dict"
      THEN [networks EXCEPT !.items =
              RenameDict(@, dynamic_network_name, <<>>)]
    ELSE networks

\* the body of the loop over compose_data["services"] for one service
RewriteService(svc, suffix, dynamic_network_name, pm, oracle) ==
    LET r == RewritePorts(svc.ports, pm, oracle, <<>>)
        inject == ~svc.has_ports /\ Truthy(pm)
    IN  [service |->
           [name |-> WithSuffix(svc.name, suffix),
            container_name |->
                IF Len(svc.container_name) = 0 THEN <<>>
                ELSE WithSuffix(svc.container_name, suffix),
            has_ports |-> svc.has_ports \/ inject,
            ports |-> IF svc.has_ports THEN r.ports
                      ELSE IF inject THEN InjectedPorts(pm) ELSE <<>>,
            networks |-> ServiceNetworks(svc.networks,
                                         dynamic_network_name)],
         pm |-> IF svc.has_ports THEN r.pm ELSE pm,
         oracle |-> IF svc.has_ports THEN r.oracle ELSE oracle]

RECURSIVE RewriteServices(_, _, _, _, _, _)
\* the loop over compose_data["services"].items(), net_name being
\* dynamic_network_name
RewriteServices(services, suffix, net_name, pm, oracle, new_services) ==
    IF Len(services) = 0
      THEN [services |-> new_services, pm |-> pm]
      ELSE LET r == RewriteService(Head(services), suffix, net_name, pm,
                                   oracle)
           IN  RewriteServices(Tail(services), suffix, net_name, r.pm,
                               r.oracle, Append(new_services, r.service))

\* a top-level network definition
NetConfig(external, driver, name) ==
    [external |-> external, driver |-> driver, name |-> name]

RECURSIVE TopNetworks(_, _, _)
\* the loop over compose_data["networks"]
TopNetworks(items, dynamic_network_name, new_networks) ==
    IF Len(items) = 0 THEN new_networks
    ELSE TopNetworks(Tail(items), dynamic_network_name,
           IF Head(items)[1] = CTFNET
             THEN DictSet(new_networks, dynamic_network_name,
                          NetConfig(FALSE, "bridge", dynamic_network_name))
             ELSE DictSet(new_networks, Head(items)[1], Head(items)[2]))

\* create_dynamic_docker_compose: the document written to the temporary
\* file and the caller's port_mappings afterwards
CreateDynamicDockerCompose(data, suffix, dynamic_network_name, pm, oracle) ==
    LET r == RewriteServices(data.services, suffix, dynamic_network_name,
                             pm, oracle, <<>>)
    IN  [compose |->
           [services |-> r.services,
            networks |->
              IF data.networks.present
                THEN [data.networks EXCEPT !.items =
                        TopNetworks(@, dynamic_network_name, <<>>)]
                ELSE data.networks],
         pm |-> r.pm]

\* inputs: the services of a compose file
ServiceName(i) == <<"svc", Digits[i]>>
PortLists == {<<PortPair(8080, "80")>>, <<PortInt("90")>>, <<PortOther>>}
NetworkRefs ==
    {[form |-> "absent", items |-> <<>>],
     [form |-> "list", items |-> <<<<<<"backend">>, None>>, <<CTFNET, None>>>>],
     [form |-> "dict", items |-> <<<<CTFNET, "aliases">>>>]}
ServiceConfigs ==
    {[name |-> <<>>, container_name |-> c, has_ports |-> p # <<>>,
      ports |-> p, networks |-> n] :
        c \in {<<>>, <<"chal">>}, p \in PortLists \cup {<<>>},
        n \in NetworkRefs}
ServiceLists ==
    UNION {{[i \in 1..n |-> [f[i] EXCEPT !.name = ServiceName(i)]] :
               f \in [1..n -> ServiceConfigs]} : n \in 1..MaxServices}
TopLevels ==
    {[present |-> FALSE, items |-> <<>>],
     [present |-> TRUE,
      items |-> <<<<CTFNET, NetConfig(TRUE, None, <<>>)>>,
                  <<<<"backend">>, NetConfig(FALSE, None, <<>>)>>>>]}
ComposeFiles ==
    {[services |-> s, networks |-> t] : s \in ServiceLists, t \in TopLevels}
MappingArgs == {NoMappings, Mappings(<<>>), Mappings(<<<<"80", 10000>>>>)}
ChallengePorts == {None, "80", "1337"}

\* port entries of a document for which get_available_port can be called
AllocEntries(data) ==
    {<<i, j>> \in (1..Len(data.services)) \X (1..2) :
        /\ j <= Len(data.services[i].ports)
        /\ data.services[i].ports[j].kind # "other"}
NumAllocEntries(data) == Cardinality(AllocEntries(data))
\* those of them whose internal port has no mapping
NumUnmapped(data, items) ==
    Cardinality({e \in AllocEntries(data) :
        ~DictHas(items, data.services[e[1]].ports[e[2]].internal)})
\* the most get_available_port calls one rewrite can make
AllocCalls(data, pm) ==
    IF Truthy(pm) THEN NumUnmapped(data, pm.items) ELSE NumAllocEntries(data)

\* every compose file, suffix and port_mappings for the rewrite, and every
\* compose file, suffix and challenge port for get_docker_compose
RewriteInit ==
    /\ rewrite_pc = "start"
    /\ compose_data \in ComposeFiles
    /\ container_name_suffix \in Suffixes
    /\ mappings_arg \in MappingArgs
    /\ challenge_internal_port \in ChallengePorts
    /\ mappings_arg = NoMappings \/ challenge_internal_port = None
    /\ dynamic_ports = FALSE
    /\ modified_compose = NoCompose
    /\ mappings_result = NoMappings
    /\ second_compose = NoCompose
    /\ actual_compose = NoCompose

RewriteRest == <<scopeVars,
    probeVars,
    janitorVars,
    summaryVars,
    taskVars,
    cleanVars,
    clientVars,
    checkVars,
    batchVars,
    schedVars, startupVars, cancelVars, scriptVars, parseVars,
                 builderVars, composeVars>>

\* create_dynamic_docker_compose(path, suffix, f"ctfnet-{suffix}", pm)
CallCreateDynamicDockerCompose ==
    /\ rewrite_pc = "start"
    /\ challenge_internal_port = None
    /\ \E oracle \in Oracles(AllocCalls(compose_data, mappings_arg)) :
         LET r == CreateDynamicDockerCompose(compose_data,
                    container_name_suffix,
                    DynamicNetworkName(container_name_suffix),
                    mappings_arg, oracle)
         IN  /\ modified_compose' = r.compose
             /\ mappings_result' = r.pm
    /\ rewrite_pc' = "rewritten"
    /\ UNCHANGED <<compose_data, container_name_suffix, mappings_arg,
                   challenge_internal_port, dynamic_ports, second_compose,
                   actual_compose, RewriteRest>>

\* the same call on the document the first call wrote, with the same
\* suffix, network name and port_mappings dict
RewriteAgain ==
    /\ rewrite_pc = "rewritten"
    /\ \E oracle \in Oracles(AllocCalls(modified_compose, mappings_result)) :
         second_compose' =
             CreateDynamicDockerCompose(modified_compose,
                 container_name_suffix,
                 DynamicNetworkName(container_name_suffix),
                 mappings_result, oracle).compose
    /\ rewrite_pc' = "again"
    /\ UNCHANGED <<compose_data, container_name_suffix, mappings_arg,
                   challenge_internal_port, dynamic_ports, modified_compose,
                   mappings_result, actual_compose, RewriteRest>>

RECURSIVE CollectPorts(_, _, _)
\* get_docker_compose: the loop over the "ports" of one service
CollectPorts(entries, collected, oracle) ==
    IF Len(entries) = 0 THEN [items |-> collected, oracle |-> oracle]
    ELSE IF Head(entries).kind = "other"
      THEN CollectPorts(Tail(entries), collected, oracle)
    ELSE CollectPorts(Tail(entries),
           IF Head(oracle) = 0 THEN collected
           ELSE DictSet(collected, Head(entries).internal, Head(oracle)),
           Tail(oracle))

RECURSIVE CollectServices(_, _, _)
\* get_docker_compose: the loop over compose_data["services"].values()
CollectServices(services, collected, oracle) ==
    IF Len(services) = 0 THEN [items |-> collected, oracle |-> oracle]
    ELSE LET r == CollectPorts(Head(services).ports, collected, oracle)
         IN  CollectServices(Tail(services), r.items, r.oracle)

\* get_docker_compose: the challenge's internal port, if not mapped yet
CollectChallengePort(c, internal_port_str) ==
    IF internal_port_str = None \/ DictHas(c.items, internal_port_str)
      THEN c
    ELSE [items |-> IF Head(c.oracle) = 0 THEN c.items
                    ELSE DictSet(c.items, internal_port_str, Head(c.oracle)),
          oracle |-> Tail(c.oracle)]

\* get_docker_compose(path, suffix, dynamic_ports, challenge_internal_port)
\* up to `docker compose -f actual_compose_path up`: the file may fail to
\* parse and the rewrite may raise (both are caught)
GetDockerComposeManifest ==
    /\ rewrite_pc = "start"
    /\ mappings_arg = NoMappings
    /\ \E dp \in BOOLEAN :
         /\ dynamic_ports' = dp
         /\ \/ /\ ~dp
               /\ actual_compose' = compose_data
               /\ mappings_result' = Mappings(<<>>)
            \/ /\ dp
               /\ actual_compose' = compose_data
               /\ mappings_result' = Mappings(<<>>)
            \/ /\ dp
               /\ \E oracle \in Oracles(NumAllocEntries(compose_data) + 1) :
                    LET c == CollectChallengePort(
                               CollectServices(compose_data.services, <<>>,
                                               oracle),
                               challenge_internal_port)
                    IN  IF Len(c.items) = 0
                          THEN /\ actual_compose' = compose_data
                               /\ mappings_result' = Mappings(<<>>)
                          ELSE \/ \E again \in Oracles(NumUnmapped(compose_data,
                                                                  c.items)) :
                                    LET r == CreateDynamicDockerCompose(
                                               compose_data,
                                               container_name_suffix,
                                               DynamicNetworkName(
                                                   container_name_suffix),
                                               Mappings(c.items), again)
                                    IN  /\ actual_compose' = r.compose
                                        /\ mappings_result' = r.pm
                               \/ /\ actual_compose' = compose_data
                                  /\ mappings_result' = Mappings(<<>>)
    /\ rewrite_pc' = "up"
    /\ UNCHANGED <<compose_data, container_name_suffix, mappings_arg,
                   challenge_internal_port, modified_compose, second_compose,
                   RewriteRest>>

RewriteNext ==
    \/ CallCreateDynamicDockerCompose
    \/ RewriteAgain
    \/ GetDockerComposeManifest

RewriteStart ==
    /\ RewriteInit
    /\ SchedIdle /\ CancelIdle /\ ScriptIdle /\ ParseIdle /\ BuilderIdle
    /\ ComposeIdle /\ StartupIdle
    /\ BatchIdle
    /\ CheckIdle
    /\ ClientIdle
    /\ CleanIdle
    /\ TaskIdle
    /\ SummaryIdle
    /\ JanitorIdle
    /\ ProbeIdle
    /\ ScopeIdle

RewriteSpec == RewriteStart /\ [][RewriteNext]_vars

\* names of the networks a service of a document refers to
ServiceNets(svc) == {svc.networks.items[j][1] : j \in 1..Len(svc.networks.items)}

Bindings(svc) == {svc.ports[j] : j \in 1..Len(svc.ports)}

\* C17: when no service of the compose file declares ports and
\* port_mappings holds the challenge's internal port, the rewritten
\* document has exactly one binding external:internal, in its first
\* service, and no other service has a binding.
C17_OneBindingInFirstService ==
    (/\ rewrite_pc = "rewritten"
     /\ \A i \in 1..Len(compose_data.services) :
            ~compose_data.services[i].has_ports
     /\ Truthy(mappings_arg))
    => /\ modified_compose.services[1].ports =
              <<PortPair(mappings_arg.items[1][2], mappings_arg.items[1][1])>>
       /\ \A i \in 2..Len(modified_compose.services) :
              /\ ~modified_compose.services[i].has_ports
              /\ Bindings(modified_compose.services[i]) = {}

\* C18: rewriting the rewritten document again with the same suffix,
\* network name and port_mappings gives a document equal to the first
\* rewrite: same service names, container names, port entries and network
\* references.
C18_RewriteIdempotent ==
    rewrite_pc = "again" => second_compose = modified_compose

\* C19: with dynamic_ports and a suffix, the document get_docker_compose
\* hands to docker compose up is a rewritten copy: none of its services
\* refers to ctfnet and every reference the compose file made to ctfnet
\* names ctfnet-{suffix}.
C19_PrivateNetworkOnly ==
    (rewrite_pc = "up" /\ dynamic_ports) =>
      \A i \in 1..Len(actual_compose.services) :
           /\ CTFNET \notin ServiceNets(actual_compose.services[i])
           /\ CTFNET \in ServiceNets(compose_data.services[i]) =>
                  WithSuffix(CTFNET, container_name_suffix)
                      \in ServiceNets(actual_compose.services[i])

(***************************************************************************)
(* BatchSpec: get_multiple_available_ports(count), one iteration of its    *)
(* loop over the shuffled range at a time, while other processes bind and  *)
(* release ports of the range.  A socket whose bind or listen raises       *)
(* OSError is never appended to temp_sockets; it holds no reservation and  *)
(* is reclaimed when the name sock is bound again or the frame ends.       *)
(***************************************************************************)
\* random.shuffle(port_range): any order of the range
Shuffles ==
    {s \in [1..NumHostPorts -> PortRange] :
        \A i, j \in 1..NumHostPorts : s[i] = s[j] => i = j}

BatchInit ==
    /\ batch_pc = "loop"
    /\ count \in 1..MaxCount
    /\ port_range \in Shuffles
    /\ allocated_ports = <<>>
    /\ temp_sockets = {}
    /\ returned = <<>>
    /\ in_use \in SUBSET PortRange

BatchRest == <<scopeVars,
    probeVars,
    janitorVars,
    summaryVars,
    taskVars,
    cleanVars,
    clientVars,
    checkVars,
    schedVars, startupVars, cancelVars, scriptVars, parseVars,
               builderVars, composeVars, rewriteVars>>

\* `if len(allocated_ports) >= count: break`, or the range is used up
LoopOver == Len(allocated_ports) >= count \/ Len(port_range) = 0

\* one iteration: skip a port in use; else bind and listen on a temporary
\* socket, which another process can still make fail (OSError: continue)
TryPort ==
    /\ batch_pc = "loop" /\ ~LoopOver
    /\ LET port == Head(port_range)
       IN  \/ /\ port \in in_use
              /\ UNCHANGED <<allocated_ports, temp_sockets>>
           \/ /\ port \notin in_use
              /\ allocated_ports' = Append(allocated_ports, port)
              /\ temp_sockets' = temp_sockets \cup {port}
           \/ /\ port \notin in_use
              /\ UNCHANGED <<allocated_ports, temp_sockets>>
    /\ port_range' = Tail(port_range)
    /\ UNCHANGED <<batch_pc, count, returned, in_use, BatchRest>>

CloseTempSocketsNot(socks) == socks

\* finally: `for sock in temp_sockets: sock.close()`
CloseTempSockets(socks) == {}

\* after the loop: RuntimeError with fewer than count ports, else return
\* allocated_ports; the finally clause runs on both ways out
BatchFinish ==
    /\ batch_pc = "loop" /\ LoopOver
    /\ IF Len(allocated_ports) < count
         THEN /\ batch_pc' = "raised"
              /\ UNCHANGED returned
         ELSE /\ batch_pc' = "returned"
              /\ returned' = allocated_ports
    /\ temp_sockets' = CloseTempSockets(temp_sockets)
    /\ UNCHANGED <<count, port_range, allocated_ports, in_use, BatchRest>>

\* another process binds a port nobody holds
OtherBinds(port) ==
    /\ batch_pc = "loop"
    /\ port \notin in_use /\ port \notin temp_sockets
    /\ in_use' = in_use \cup {port}
    /\ UNCHANGED <<batch_pc, count, port_range, allocated_ports,
                   temp_sockets, returned, BatchRest>>

\* another process releases a port
OtherReleases(port) ==
    /\ batch_pc = "loop"
    /\ port \in in_use
    /\ in_use' = in_use \ {port}
    /\ UNCHANGED <<batch_pc, count, port_range, allocated_ports,
                   temp_sockets, returned, BatchRest>>

BatchNext ==
    \/ TryPort
    \/ BatchFinish
    \/ \E port \in PortRange : OtherBinds(port)
    \/ \E port \in PortRange : OtherReleases(port)

BatchStart ==
    /\ BatchInit
    /\ SchedIdle /\ CancelIdle /\ ScriptIdle /\ ParseIdle /\ BuilderIdle
    /\ ComposeIdle /\ StartupIdle /\ RewriteIdle
    /\ CheckIdle
    /\ ClientIdle
    /\ CleanIdle
    /\ TaskIdle
    /\ SummaryIdle
    /\ JanitorIdle
    /\ ProbeIdle
    /\ ScopeIdle

BatchSpec == BatchStart /\ [][BatchNext]_vars

\* ports of a list
PortsOf(ports) == {ports[i] : i \in 1..Len(ports)}

\* C20: get_multiple_available_ports(count >= 1) returns exactly count
\* pairwise different ports of the range, every one held by a temporary
\* socket of its own from the moment it is taken until the call ends, or
\* raises having secured fewer than count; after either exit none of its
\* temporary sockets is open.
C20_BatchReservedThenReleased ==
    /\ batch_pc = "loop" =>
          /\ PortsOf(allocated_ports) = temp_sockets
          /\ temp_sockets \cap in_use = {}
    /\ batch_pc = "returned" =>
          /\ Len(returned) = count
          /\ Cardinality(PortsOf(returned)) = count
          /\ PortsOf(returned) \subseteq PortRange
          /\ temp_sockets = {}
    /\ batch_pc = "raised" =>
          /\ Len(allocated_ports) < count
          /\ temp_sockets = {}

\* two ports were reserved and returned
C20_Witness ==
    /\ batch_pc = "returned"
    /\ count = 2
    /\ Len(returned) = 2
    /\ temp_sockets = {}

\* C30: every port entry EXT:INT or bare INT of a service is, in the
\* rewritten service, the entry port_mappings[INT]:INT, whose external
\* port is the one the caller supplied for INT or else a freshly allocated
\* port of the range that port_mappings holds afterwards; the original
\* entry is never kept.
C30_EveryEntryRemapped ==
    rewrite_pc = "rewritten" =>
      \A i \in 1..Len(compose_data.services) :
        \A j \in 1..Len(compose_data.services[i].ports) :
          LET old == compose_data.services[i].ports[j]
              new == modified_compose.services[i].ports[j]
              supplied == /\ Truthy(mappings_arg)
                          /\ DictHas(mappings_arg.items, old.internal)
          IN  old.kind # "other" =>
                /\ new.kind = "pair"
                /\ new.internal = old.internal
                /\ IF supplied
                     THEN new.external =
                              DictGet(mappings_arg.items, old.internal)
                     ELSE new.external \in PortRange
                /\ ~mappings_result.none =>
                     /\ DictHas(mappings_result.items, old.internal)
                     /\ DictGet(mappings_result.items, old.internal) =
                            new.external

\* C28: under every interleaving of the wrapper script and the supervisor,
\* a status file that holds COMPLETED_SUCCESS is never overwritten (by the
\* hard timeout, the stuck sweep or the Docker-error check).
C28_SuccessNeverOverwritten ==
    [][\A a \in Attempts :
          status[a] = "COMPLETED_SUCCESS" =>
              status'[a] = "COMPLETED_SUCCESS"]_vars

(***************************************************************************)
(* StuckSpec: the run of Spec for one round, with the scheduling the code  *)
(* has: run_parallel is a loop that always takes its next step, and the    *)
(* wall clock ends wait_for_completion after max_wait_time.  Nothing       *)
(* makes a wrapper script take a step: it may hang before its first write. *)
(***************************************************************************)
StuckStart ==
    /\ try_times = 1
    /\ start_try = StartTry
    /\ RunStart
    /\ enable_logs = FALSE
    /\ enable_per_task_cleanup = TRUE
    /\ CancelIdle /\ ScriptIdle /\ ParseIdle /\ BuilderIdle /\ ComposeIdle
    /\ StartupIdle /\ RewriteIdle /\ BatchIdle
    /\ CheckIdle
    /\ ClientIdle
    /\ CleanIdle
    /\ TaskIdle
    /\ SummaryIdle
    /\ JanitorIdle
    /\ ProbeIdle
    /\ ScopeIdle

\* the steps of run_parallel and of the sweeps it calls
SupervisorNext ==
    \/ Launch
    \/ LaunchFails
    \/ DispatchPoll
    \/ DispatchCount
    \/ StartDrain
    \/ CfsLine
    \/ CfsWrite
    \/ CfsKill
    \/ CfsReturn
    \/ WaitPoll
    \/ WaitTimeout
    \/ WaitBreak
    \/ WaitSleep
    \/ AggrScan
    \/ AggrWrite
    \/ AggrKill

StuckSpec ==
    /\ StuckStart
    /\ [][Next]_vars
    /\ WF_vars(SupervisorNext)
    /\ SF_vars(WaitTimeout)

\* C27: a session that is alive and has no status file does not stay so
\* for good: the wrapper writes one, or the sweeps of the supervisor kill
\* the session and write COMPLETED_FAILED.
C27_NoStatusSessionKilled ==
    \A a \in Attempts :
        (tmux[a] = "alive" /\ status[a] = "absent")
            ~> (status[a] # "absent" \/ tmux[a] # "alive")

(***************************************************************************)
(* LogCheckSpec: the Docker-error check cleanup_finished_sessions makes    *)
(* for a session whose status file says RUNNING and is younger than the    *)
(* hard timeout.  The log file of an attempt is absent (none), free of     *)
(* the error strings (clean) or holds one of them (error).                 *)
(***************************************************************************)
LogStates == {"none", "clean", "error"}

CheckInit ==
    /\ check_pc = "start"
    /\ checked \in Attempts
    /\ log_files \in [Attempts -> LogStates]
    /\ logs_enabled \in BOOLEAN
    /\ picked = 0
    /\ check_status = "RUNNING"
    /\ check_killed = FALSE

CheckRest == <<scopeVars,
    probeVars,
    janitorVars,
    summaryVars,
    taskVars,
    cleanVars,
    clientVars,
    schedVars, startupVars, cancelVars, scriptVars, parseVars,
               builderVars, composeVars, rewriteVars, batchVars>>

\* logs_dir.glob(f"{execution_id}_parallel_*_{session_name.split('_')[-1]}.log"):
\* the last part of a session name is try{N}, so the pattern matches the log
\* file {execution_id}_parallel_{instance_id}_{challenge_id}_try{N}.log of
\* every attempt of that try
GlobLogFiles(a) ==
    {b \in Attempts : TryOf(b) = TryOf(a) /\ log_files[b] # "none"}

\* the check: log_files[0] of the glob (in the order the directory gives),
\* searched for the error strings; on a hit COMPLETED_FAILED is written and
\* the session killed, else the line is kept
DockerErrorCheck ==
    /\ check_pc = "start"
    /\ IF logs_enabled /\ GlobLogFiles(checked) # {}
         THEN \E log_file \in GlobLogFiles(checked) :
                /\ picked' = log_file
                /\ check_status' = IF log_files[log_file] = "error"
                                     THEN "COMPLETED_FAILED" ELSE "RUNNING"
                /\ check_killed' = (log_files[log_file] = "error")
         ELSE UNCHANGED <<picked, check_status, check_killed>>
    /\ check_pc' = "done"
    /\ UNCHANGED <<checked, log_files, logs_enabled, CheckRest>>

LogCheckNext == DockerErrorCheck

LogCheckStart ==
    /\ CheckInit
    /\ SchedIdle /\ CancelIdle /\ ScriptIdle /\ ParseIdle /\ BuilderIdle
    /\ ComposeIdle /\ StartupIdle /\ RewriteIdle /\ BatchIdle
    /\ ClientIdle
    /\ CleanIdle
    /\ TaskIdle
    /\ SummaryIdle
    /\ JanitorIdle
    /\ ProbeIdle
    /\ ScopeIdle

LogCheckSpec == LogCheckStart /\ [][LogCheckNext]_vars

\* C29: the Docker-error check writes COMPLETED_FAILED for a running
\* attempt and kills its session only if the log file of that attempt
\* holds a Docker error string.
C29_OwnLogOnly ==
    (check_pc = "done" /\ (check_status = "COMPLETED_FAILED" \/ check_killed))
        => log_files[checked] = "error"

(***************************************************************************)
(* ClientSpec: one model client (sweagent/agent/models.py).  Costs are     *)
(* counted in units of 1e-08 dollars, the unit of the vLLM price table.    *)
(***************************************************************************)
\* _MAX_RETRIES: SWE_AGENT_MODEL_MAX_RETRIES, default 10
MAX_RETRIES == 10
\* model_metadata["cost_per_input_token"], ["cost_per_output_token"]
CostPerInputToken == 6
CostPerOutputToken == 15

Backends == {"openai", "anthropic", "bedrock", "ollama", "together", "vllm"}
CostLimits == {0, 15}
Tokens == 0..MaxTokens
\* what a provider call can fail with: an error the provider may not repeat
\* (rate limit, 5xx, connection reset), or a RuntimeError
ProviderErrors == {"transient", "RuntimeError"}

\* the backends whose query() carries @retry(stop=stop_after_attempt(
\* _MAX_RETRIES), retry=retry_if_not_exception_type((CostLimitExceededError,
\* RuntimeError)), reraise=True); VLLMModel.query carries none
HasRetryPolicy(backend) == backend # "vllm"

\* retry_if_not_exception_type((CostLimitExceededError, RuntimeError))
RetriedButRuntime(error) == error # "RuntimeError"

Retried(error) == error \notin {"CostLimitExceededError", "RuntimeError"}

\* the two tests at the end of update_stats
LimitReachedStrict(limit, spent) == 0 < limit /\ limit < spent

LimitReached(limit, spent) == 0 < limit /\ limit <= spent

CallCost(input_tokens, output_tokens) ==
    CostPerInputToken * input_tokens + CostPerOutputToken * output_tokens

\* update_stats: the stats after the call, and whether it raises
\* CostLimitExceededError
UpdateStatsUncounted(st, input_tokens, output_tokens) ==
    LET cost == CallCost(input_tokens, output_tokens)
        new == [total_cost |-> st.total_cost + cost,
                instance_cost |-> st.instance_cost + cost,
                tokens_sent |-> st.tokens_sent + input_tokens,
                tokens_received |-> st.tokens_received + output_tokens,
                api_calls |-> st.api_calls + 1]
        raises == \/ LimitReached(total_cost_limit, new.total_cost)
                  \/ LimitReached(per_instance_cost_limit, new.instance_cost)
    IN  [stats |-> IF raises THEN [new EXCEPT !.api_calls = st.api_calls]
                             ELSE new,
         raises |-> raises]

UpdateStats(st, input_tokens, output_tokens) ==
    LET cost == CallCost(input_tokens, output_tokens)
        new == [total_cost |-> st.total_cost + cost,
                instance_cost |-> st.instance_cost + cost,
                tokens_sent |-> st.tokens_sent + input_tokens,
                tokens_received |-> st.tokens_received + output_tokens,
                api_calls |-> st.api_calls + 1]
    IN  [stats |-> new,
         raises |-> \/ LimitReached(total_cost_limit, new.total_cost)
                    \/ LimitReached(per_instance_cost_limit,
                                    new.instance_cost)]

ClientInit ==
    /\ model_backend \in Backends
    /\ stats = APIStats
    /\ total_cost_limit \in CostLimits
    /\ per_instance_cost_limit \in CostLimits
    /\ query_pc = "idle"
    /\ attempt_number = 0
    /\ provider_calls = 0
    /\ query_error = "none"
    /\ sum_input_tokens = 0
    /\ sum_output_tokens = 0
    /\ num_calls = 0
    /\ total_spent = 0

ClientRest == <<scopeVars,
    probeVars,
    janitorVars,
    summaryVars,
    taskVars,
    cleanVars,
    schedVars, startupVars, cancelVars, scriptVars, parseVars,
                builderVars, composeVars, rewriteVars, batchVars, checkVars>>

ClientFixed == <<model_backend, total_cost_limit, per_instance_cost_limit,
                 ClientRest>>

\* the agent calls query(history)
StartQuery ==
    /\ query_pc \in {"idle", "returned", "raised"}
    /\ stats.api_calls < MaxCalls
    /\ stats.total_cost < MaxCalls * CallCost(MaxTokens, MaxTokens)
    /\ query_pc' = "attempt"
    /\ attempt_number' = 1
    /\ provider_calls' = 0
    /\ query_error' = "none"
    /\ UNCHANGED <<stats, callTotals, ClientFixed>>

\* what becomes of an exception of one attempt: the retry wrapper makes
\* another attempt while the type is retried and attempts are left, else
\* the error reaches the caller (reraise=True); without a wrapper it
\* reaches the caller at once
AttemptRaises(error) ==
    IF /\ HasRetryPolicy(model_backend)
       /\ Retried(error)
       /\ attempt_number < MAX_RETRIES
      THEN /\ query_pc' = "attempt"
           /\ attempt_number' = attempt_number + 1
           /\ query_error' = "none"
      ELSE /\ query_pc' = "raised"
           /\ query_error' = error
           /\ UNCHANGED attempt_number

\* the provider call of the attempt fails
ProviderFails ==
    /\ query_pc = "attempt"
    /\ provider_calls' = provider_calls + 1
    /\ \E error \in ProviderErrors : AttemptRaises(error)
    /\ UNCHANGED <<stats, callTotals, ClientFixed>>

\* the provider answers: update_stats(input_tokens, output_tokens), then the
\* response is returned
ProviderAnswers ==
    /\ query_pc = "attempt"
    /\ provider_calls' = provider_calls + 1
    /\ \E input_tokens \in Tokens, output_tokens \in Tokens :
         LET u == UpdateStats(stats, input_tokens, output_tokens)
         IN  /\ stats' = u.stats
             /\ sum_input_tokens' = sum_input_tokens + input_tokens
             /\ sum_output_tokens' = sum_output_tokens + output_tokens
             /\ num_calls' = num_calls + 1
             /\ total_spent'
                  = total_spent + CallCost(input_tokens, output_tokens)
             /\ IF u.raises
                  THEN AttemptRaises("CostLimitExceededError")
                  ELSE /\ query_pc' = "returned"
                       /\ UNCHANGED <<attempt_number, query_error>>
    /\ UNCHANGED ClientFixed

\* reset_stats(): APIStats(total_cost=self.stats.total_cost)
ResetStatsAll(st) == APIStats

ResetStatsTo(st) == [APIStats EXCEPT !.total_cost = st.total_cost]

\* the agent calls reset_stats() when it starts an instance
ResetStats ==
    /\ query_pc \in {"idle", "returned", "raised"}
    /\ stats' = ResetStatsTo(stats)
    /\ sum_input_tokens' = 0
    /\ sum_output_tokens' = 0
    /\ num_calls' = 0
    /\ UNCHANGED <<query_pc, attempt_number, provider_calls, query_error,
                   total_spent, ClientFixed>>

ClientNext == StartQuery \/ ProviderFails \/ ProviderAnswers \/ ResetStats

ClientStart ==
    /\ ClientInit
    /\ SchedIdle /\ CancelIdle /\ ScriptIdle /\ ParseIdle /\ BuilderIdle
    /\ ComposeIdle /\ StartupIdle /\ RewriteIdle /\ BatchIdle /\ CheckIdle
    /\ CleanIdle
    /\ TaskIdle
    /\ SummaryIdle
    /\ JanitorIdle
    /\ ProbeIdle
    /\ ScopeIdle

ClientSpec == ClientStart /\ [][ClientNext]_vars

\* C21: update_stats raises CostLimitExceededError exactly when, with the
\* cost of the call added, the total limit is positive and reached or the
\* per-instance limit is positive and reached; and the stats then hold the
\* tokens, the cost and the api call of that call.
C21_RaisesExactlyAtLimit ==
    [][stats'.api_calls = stats.api_calls + 1 =>
         /\ (query_error' = "CostLimitExceededError") <=>
              \/ (total_cost_limit > 0
                    /\ stats'.total_cost >= total_cost_limit)
              \/ (per_instance_cost_limit > 0
                    /\ stats'.instance_cost >= per_instance_cost_limit)
         /\ \E input_tokens \in Tokens, output_tokens \in Tokens :
              /\ stats'.tokens_sent = stats.tokens_sent + input_tokens
              /\ stats'.tokens_received
                   = stats.tokens_received + output_tokens
              /\ stats'.total_cost = stats.total_cost
                   + CallCost(input_tokens, output_tokens)
              /\ stats'.instance_cost = stats.instance_cost
                   + CallCost(input_tokens, output_tokens)]_vars

\* a call raised with the total cost exactly at a positive limit
C21_Witness ==
    /\ query_error = "CostLimitExceededError"
    /\ total_cost_limit > 0
    /\ stats.total_cost = total_cost_limit
    /\ per_instance_cost_limit = 0
    /\ stats.api_calls > 0

\* C22: for every remote backend a query whose provider call fails with a
\* transient error is attempted again until SWE_AGENT_MODEL_MAX_RETRIES
\* provider attempts are made, and only then does the error reach the
\* caller; one query never makes more provider attempts than that.
C22_TransientRetried ==
    /\ provider_calls <= MAX_RETRIES
    /\ (query_pc = "raised" /\ query_error = "transient")
         => provider_calls = MAX_RETRIES

(***************************************************************************)
(* CleanSpec: clean_result (sweagent/agent/models.py).  A response is a    *)
(* sequence of pieces of text.  The markers </think> and <|im_end|> are    *)
(* two pieces each, so that text around a piece can join into a marker;    *)
(* the four tool-call markers (written with full-width bars in the source) *)
(* are one piece each; "x" is other text and " " is white space.           *)
(***************************************************************************)
ThinkEnd == <<"</thi", "nk>">>
ImEnd == <<"<|im_", "end|>">>
ToolCallBegin == "<tool_call_begin>"
ToolCallEnd == "<tool_call_end>"
ToolCallsBegin == "<tool_calls_begin>"
ToolCallsEnd == "<tool_calls_end>"
ToolMarkers == {ToolCallBegin, ToolCallEnd, ToolCallsBegin, ToolCallsEnd}

Pieces23 == {"</thi", "nk>", "<|im_", "end|>", "x", " "} \cup ToolMarkers

Responses ==
    UNION {[1..n -> Pieces23] : n \in 0..MaxResponseLen}

DropFirst(s, n) == SubSeq(s, n + 1, Len(s))

\* the index of the first occurrence of sep in s, 0 if there is none
FindSeq(s, sep) ==
    LET hits == {i \in 1..(Len(s) - Len(sep) + 1) :
                   SubSeq(s, i, i + Len(sep) - 1) = sep}
    IN  IF hits = {} THEN 0 ELSE CHOOSE i \in hits : \A k \in hits : i <= k

\* str.split(sep)
RECURSIVE SplitOn(_, _)
SplitOn(s, sep) ==
    LET i == FindSeq(s, sep)
    IN  IF i = 0 THEN <<s>>
        ELSE <<SubSeq(s, 1, i - 1)>>
               \o SplitOn(DropFirst(s, i + Len(sep) - 1), sep)

\* re.sub(begin.*?end, "", s, flags=re.DOTALL): every match, left to right,
\* from a begin marker to the nearest end marker after it
RECURSIVE SubPattern(_, _, _)
SubPattern(s, begin, end) ==
    LET i == FindSeq(s, <<begin>>)
        after == DropFirst(s, i)
        j == FindSeq(after, <<end>>)
    IN  IF i = 0 \/ j = 0 THEN s
        ELSE SubSeq(s, 1, i - 1) \o SubPattern(DropFirst(after, j), begin, end)

\* while re.search(pattern, content): content = re.sub(pattern, "", content)
RECURSIVE SubWhileFound(_, _, _)
SubWhileFound(s, begin, end) ==
    IF SubPattern(s, begin, end) = s THEN s
    ELSE SubWhileFound(SubPattern(s, begin, end), begin, end)

\* the four .replace(marker, "")
RemoveMarkers(s) == SelectSeq(s, LAMBDA piece : piece \notin ToolMarkers)

\* str.strip()
RECURSIVE LStrip(_)
LStrip(s) ==
    IF s # <<>> /\ Head(s) = " " THEN LStrip(Tail(s)) ELSE s

RECURSIVE RStrip(_)
RStrip(s) ==
    IF s # <<>> /\ s[Len(s)] = " " THEN RStrip(SubSeq(s, 1, Len(s) - 1))
    ELSE s

Strip(s) == RStrip(LStrip(s))

clean_result(response) ==
    LET after_think == IF FindSeq(response, ThinkEnd) # 0
                         THEN Join(Tail(SplitOn(response, ThinkEnd)), <<" ">>)
                         ELSE response
        before_end == SplitOn(after_think, ImEnd)[1]
        no_call == SubWhileFound(before_end, ToolCallBegin, ToolCallEnd)
        no_calls == SubWhileFound(no_call, ToolCallsBegin, ToolCallsEnd)
    IN  Strip(RemoveMarkers(no_calls))

CleanInit ==
    /\ clean_pc = "start"
    /\ result \in Responses
    /\ content = <<>>
    /\ content_again = <<>>

CleanRest == <<scopeVars,
    probeVars,
    janitorVars,
    summaryVars,
    taskVars,
    schedVars, startupVars, cancelVars, scriptVars, parseVars,
               builderVars, composeVars, rewriteVars, batchVars, checkVars,
               clientVars>>

\* clean_result(result)
CleanOnce ==
    /\ clean_pc = "start"
    /\ content' = clean_result(result)
    /\ clean_pc' = "once"
    /\ UNCHANGED <<result, content_again, CleanRest>>

\* clean_result of the cleaned response
CleanTwice ==
    /\ clean_pc = "once"
    /\ content_again' = clean_result(content)
    /\ clean_pc' = "twice"
    /\ UNCHANGED <<result, content, CleanRest>>

CleanNext == CleanOnce \/ CleanTwice

CleanStart ==
    /\ CleanInit
    /\ SchedIdle /\ CancelIdle /\ ScriptIdle /\ ParseIdle /\ BuilderIdle
    /\ ComposeIdle /\ StartupIdle /\ RewriteIdle /\ BatchIdle /\ CheckIdle
    /\ ClientIdle
    /\ TaskIdle
    /\ SummaryIdle
    /\ JanitorIdle
    /\ ProbeIdle
    /\ ScopeIdle

CleanSpec == CleanStart /\ [][CleanNext]_vars

\* C23: clean_result is idempotent: cleaning a cleaned response gives the
\* cleaned response again, whatever markers the response holds.
C23_CleanIdempotent ==
    clean_pc = "twice" => content_again = content

(***************************************************************************)
(* TaskCleanupSpec: DockerManager.cleanup_task_resources with              *)
(* _cleanup_task_container and _cleanup_task_networks.  Every call of the   *)
(* Docker API either returns or raises; which calls raise is an input.     *)
(***************************************************************************)
ContainerStates == {"running", "paused", "exited", "dead", "created"}
TaskNets == 1..NumTaskNets

\* which Docker calls of one cleanup raise an error of the API
DockerFailures ==
    [get : BOOLEAN, unpause : BOOLEAN, stop : BOOLEAN, remove : BOOLEAN,
     list : BOOLEAN]

\* an except clause for class handler catches exception exc: `except
\* Exception` catches all, `except docker.errors.NotFound` that class only
CatchesExact(handler, exc) == handler = exc

Catches(handler, exc) == handler = "Exception" \/ handler = exc

\* the exception that leaves a try statement with these except clauses
Escaping(exc, handlers) ==
    IF exc = "none" \/ \E h \in handlers : Catches(h, exc)
      THEN "none" ELSE exc

\* the body of _cleanup_task_container up to the first exception that
\* leaves it: the state of the container afterwards and that exception
ContainerBody(c, fails) ==
    LET Out(state, exc) == [container |-> state, exc |-> exc]
        Remove(state) == IF fails.remove THEN Out(state, "APIError")
                                         ELSE Out("absent", "none")
    IN  IF c = "absent" THEN Out(c, "NotFound")
        ELSE IF fails.get THEN Out(c, "APIError")
        ELSE IF c = "running"
          THEN IF fails.stop THEN Out(c, "APIError") ELSE Remove("exited")
        ELSE IF c = "paused"
          THEN IF fails.unpause THEN Out(c, "APIError")
               ELSE IF fails.stop THEN Out("running", "APIError")
               ELSE Remove("exited")
        ELSE IF c \in {"exited", "dead"} THEN Remove(c)
        ELSE IF fails.stop THEN Remove(c) ELSE Remove("exited")

\* _cleanup_task_container: except docker.errors.NotFound, except Exception
CleanupTaskContainer(c, fails) ==
    LET body == ContainerBody(c, fails)
    IN  [container |-> body.container,
         exc |-> Escaping(body.exc, {"NotFound", "Exception"})]

\* _cleanup_task_networks: networks.list() may raise; each matching
\* network is removed unless reload or remove raises for it (kept holds
\* those), which the inner `except Exception` only logs
CleanupTaskNetworks(nets, fails, kept) ==
    IF fails.list
      THEN [networks |-> nets, exc |-> Escaping("APIError", {"Exception"})]
      ELSE [networks |-> nets \cap kept,
            exc |-> IF nets \cap kept = {} THEN "none"
                    ELSE Escaping("APIError", {"Exception"})]

TaskInit ==
    /\ docker_client \in BOOLEAN
    /\ task_container \in ContainerStates \cup {"absent"}
    /\ task_networks \in SUBSET TaskNets
    /\ cleanup_calls = 0
    /\ cleanup_raised = "none"
    /\ removing_call = 0

TaskRest == <<scopeVars,
    probeVars,
    janitorVars,
    summaryVars,
    schedVars, startupVars, cancelVars, scriptVars, parseVars,
              builderVars, composeVars, rewriteVars, batchVars, checkVars,
              clientVars, cleanVars>>

\* cleanup_task_resources(session_name, execution_id)
CleanupTaskResources ==
    /\ cleanup_calls < MaxCleanupCalls
    /\ cleanup_calls' = cleanup_calls + 1
    /\ IF ~docker_client
         THEN /\ cleanup_raised' = "none"
              /\ UNCHANGED <<task_container, task_networks, removing_call>>
         ELSE \E fails \in DockerFailures, kept \in SUBSET TaskNets :
                LET c == CleanupTaskContainer(task_container, fails)
                    n == IF c.exc = "none"
                           THEN CleanupTaskNetworks(task_networks, fails,
                                                    kept)
                           ELSE [networks |-> task_networks, exc |-> c.exc]
                IN  /\ task_container' = c.container
                    /\ task_networks' = n.networks
                    /\ cleanup_raised' = Escaping(n.exc, {"Exception"})
                    /\ removing_call' =
                         IF /\ removing_call = 0
                            /\ (task_container # "absent"
                                  \/ task_networks # {})
                            /\ c.container = "absent" /\ n.networks = {}
                           THEN cleanup_calls + 1 ELSE removing_call
    /\ UNCHANGED <<docker_client, TaskRest>>

TaskCleanupNext == CleanupTaskResources

TaskCleanupStart ==
    /\ TaskInit
    /\ SchedIdle /\ CancelIdle /\ ScriptIdle /\ ParseIdle /\ BuilderIdle
    /\ ComposeIdle /\ StartupIdle /\ RewriteIdle /\ BatchIdle /\ CheckIdle
    /\ ClientIdle /\ CleanIdle
    /\ SummaryIdle
    /\ JanitorIdle
    /\ ProbeIdle
    /\ ScopeIdle

TaskCleanupSpec == TaskCleanupStart /\ [][TaskCleanupNext]_vars

\* C24: cleanup_task_resources can be called any number of times for one
\* attempt, whatever Docker calls fail: no call lets an exception out, and
\* a call that finds the container and the networks gone changes nothing.
C24_CleanupIdempotent ==
    [][cleanup_calls' = cleanup_calls + 1 =>
         /\ cleanup_raised' = "none"
         /\ (task_container = "absent" /\ task_networks = {})
              => (task_container' = "absent" /\ task_networks' = {})
         /\ removing_call # 0
              => (task_container' = "absent" /\ task_networks' = {})]_vars

\* the first call removed a container and networks, and two more calls
\* followed
C24_Witness ==
    /\ removing_call = 1
    /\ cleanup_calls = MaxCleanupCalls
    /\ task_container = "absent" /\ task_networks = {}
    /\ cleanup_raised = "none"

(***************************************************************************)
(* SummarySpec: ChallengeRunner.print_summary.  A path is a sequence of    *)
(* names and a name a sequence of pieces of text; the files below logs/    *)
(* are the status files of the attempts, each in the directory             *)
(* status_{execution_id}.                                                  *)
(***************************************************************************)
StatusContents == {"RUNNING", "COMPLETED_SUCCESS", "COMPLETED_FAILED"}

\* self.logs_dir and self.status_file_prefix = logs_dir / f"status_{eid}"
logs_dir == <<<<"logs">>>>
status_file_prefix == logs_dir \o <<<<"status_", "eid">>>>

\* status_file_prefix / f"{instance_id}_{challenge_id}_try{try_num}.txt"
StatusFilePath(a) ==
    status_file_prefix
      \o <<Str(InstanceOf(a)) \o <<"_", "chal">> \o Str(InstanceOf(a))
             \o <<"_", "try">> \o Str(TryOf(a)) \o <<".txt">>>>

\* the paths of the files that exist
FilesPresent(files) ==
    {StatusFilePath(a) : a \in {b \in Attempts : files[b] # "absent"}}

\* the entries of directory dir: files and directories right below it
DirEntries(dir, files) ==
    {SubSeq(p, 1, Len(dir) + 1) :
       p \in {q \in FilesPresent(files) :
                Len(q) > Len(dir) /\ SubSeq(q, 1, Len(dir)) = dir}}

\* fnmatch of a name against f"{prefix}*.txt"
MatchesPrefixTxt(name, prefix) ==
    /\ Len(name) > Len(prefix)
    /\ SubSeq(name, 1, Len(prefix)) = prefix
    /\ name[Len(name)] = ".txt"

\* dir.glob(f"{prefix}*.txt"): a pattern without a slash matches entries of
\* dir itself
GlobPrefixTxt(dir, prefix, files) ==
    {p \in DirEntries(dir, files) : MatchesPrefixTxt(p[Len(p)], prefix)}

\* open(status_file).read().strip() of a path the glob gave
ContentAt(p, files) ==
    LET owners == {a \in Attempts : StatusFilePath(a) = p}
    IN  IF owners = {} THEN "unreadable"
        ELSE files[CHOOSE a \in owners : TRUE]

SummaryInit ==
    /\ summary_pc = "start"
    /\ status_files \in [Attempts -> StatusContents \cup {"absent"}]
    /\ completed_jobs = 0
    /\ successful_jobs = 0
    /\ failed_jobs = 0

SummaryRest == <<scopeVars,
    probeVars,
    janitorVars,
    schedVars, startupVars, cancelVars, scriptVars, parseVars,
                 builderVars, composeVars, rewriteVars, batchVars, checkVars,
                 clientVars, cleanVars, taskVars>>

\* print_summary: the loop over the glob
PrintSummary ==
    /\ summary_pc = "start"
    /\ LET found == GlobPrefixTxt(SubSeq(status_file_prefix, 1,
                                         Len(status_file_prefix) - 1),
                                  status_file_prefix[Len(status_file_prefix)],
                                  status_files)
       IN  /\ completed_jobs' = Cardinality(found)
           /\ successful_jobs' = Cardinality(
                {p \in found : ContentAt(p, status_files)
                                 \in {"COMPLETED_SUCCESS", "FINISHED"}})
           /\ failed_jobs' = Cardinality(
                {p \in found : ContentAt(p, status_files)
                                 = "COMPLETED_FAILED"})
    /\ summary_pc' = "printed"
    /\ UNCHANGED <<status_files, SummaryRest>>

SummaryNext == PrintSummary

SummaryStart ==
    /\ SummaryInit
    /\ SchedIdle /\ CancelIdle /\ ScriptIdle /\ ParseIdle /\ BuilderIdle
    /\ ComposeIdle /\ StartupIdle /\ RewriteIdle /\ BatchIdle /\ CheckIdle
    /\ ClientIdle /\ CleanIdle /\ TaskIdle
    /\ JanitorIdle
    /\ ProbeIdle
    /\ ScopeIdle

SummarySpec == SummaryStart /\ [][SummaryNext]_vars

\* C25: the summary's completed count is the number of attempts that have
\* a status file, its successful count the number of those whose status is
\* COMPLETED_SUCCESS or FINISHED, and its failed count the number whose
\* status is COMPLETED_FAILED.
C25_SummaryCounts ==
    summary_pc = "printed" =>
      /\ completed_jobs
           = Cardinality({a \in Attempts : status_files[a] # "absent"})
      /\ successful_jobs
           = Cardinality({a \in Attempts :
                            status_files[a] \in {"COMPLETED_SUCCESS",
                                                 "FINISHED"}})
      /\ failed_jobs
           = Cardinality({a \in Attempts :
                            status_files[a] = "COMPLETED_FAILED"})

(***************************************************************************)
(* JanitorSpec: the cleanup routines of DockerManager and the Docker       *)
(* operations they start.  An operation returns, raises, or hangs (never   *)
(* returns).  Time passes only while the routine is blocked.               *)
(***************************************************************************)
\* future.result(timeout=15)
ResultTimeout == 15

JanitorRoutines ==
    {"initial_comprehensive_cleanup", "cleanup_containers",
     "_cleanup_task_container"}

\* the routines that hand their operations to a ThreadPoolExecutor;
\* _cleanup_task_container calls Docker in the calling thread
UsesPool(routine) == routine # "_cleanup_task_container"

\* sections: stop all, then remove all; one pool; or the calls
\* containers.get, container.stop, container.remove one after another
Phases(routine) ==
    IF routine = "initial_comprehensive_cleanup" THEN 2
    ELSE IF routine = "cleanup_containers" THEN 1
    ELSE 3

OpsIn(routine) == IF UsesPool(routine) THEN 1..MaxOps ELSE {1}

\* the time the per-operation timeouts allow the routine to be blocked
Budget(routine) ==
    Phases(routine) * Cardinality(OpsIn(routine)) * ResultTimeout

JanitorClockCap == 2 * MaxOps * ResultTimeout + 1

Finished(w) == op_state[w] \in {"idle", "done", "raised"}

JanitorInit ==
    /\ jan_pc = "call"
    /\ jan_routine \in JanitorRoutines
    /\ jan_phase = 1
    /\ op_state = [w \in 1..MaxOps |-> "idle"]
    /\ jan_clock = 0

JanitorRest == <<scopeVars,
    probeVars,
    schedVars, startupVars, cancelVars, scriptVars, parseVars,
                 builderVars, composeVars, rewriteVars, batchVars, checkVars,
                 clientVars, cleanVars, taskVars, summaryVars>>

\* the section starts its operations: executor.submit for every container
\* inside `with ThreadPoolExecutor(...) as executor:`, or the Docker call
\* itself; the routine then waits: the end of the with block is
\* executor.shutdown(wait=True), a direct call waits for its answer
JanitorSubmit ==
    /\ jan_pc = "call"
    /\ op_state' = [w \in 1..MaxOps |->
                      IF w \in OpsIn(jan_routine) THEN "running" ELSE "idle"]
    /\ jan_pc' = "waiting"
    /\ UNCHANGED <<jan_routine, jan_phase, jan_clock, JanitorRest>>

OpReturns(w) ==
    /\ op_state[w] = "running"
    /\ op_state' = [op_state EXCEPT ![w] = "done"]
    /\ UNCHANGED <<jan_pc, jan_routine, jan_phase, jan_clock, JanitorRest>>

OpRaises(w) ==
    /\ op_state[w] = "running"
    /\ op_state' = [op_state EXCEPT ![w] = "raised"]
    /\ UNCHANGED <<jan_pc, jan_routine, jan_phase, jan_clock, JanitorRest>>

\* the Docker daemon never answers this operation
OpHangs(w) ==
    /\ op_state[w] = "running"
    /\ op_state' = [op_state EXCEPT ![w] = "hung"]
    /\ UNCHANGED <<jan_pc, jan_routine, jan_phase, jan_clock, JanitorRest>>

\* every operation of the section has ended: the with block is left and
\* future.result(timeout=15) of each (finished) future returns or raises
\* at once; a direct call that raised ends the routine in its except clause
JanitorProceed ==
    /\ jan_pc = "waiting"
    /\ \A w \in 1..MaxOps : Finished(w)
    /\ IF \/ jan_phase = Phases(jan_routine)
          \/ (~UsesPool(jan_routine) /\ op_state[1] = "raised")
         THEN jan_pc' = "returned" /\ UNCHANGED jan_phase
         ELSE jan_pc' = "call" /\ jan_phase' = jan_phase + 1
    /\ UNCHANGED <<jan_routine, op_state, jan_clock, JanitorRest>>

\* a second passes while the routine is blocked
JanitorTick ==
    /\ jan_pc = "waiting"
    /\ \E w \in 1..MaxOps : ~Finished(w)
    /\ jan_clock < JanitorClockCap
    /\ jan_clock' = jan_clock + 1
    /\ UNCHANGED <<jan_pc, jan_routine, jan_phase, op_state, JanitorRest>>

JanitorNext ==
    \/ JanitorSubmit
    \/ \E w \in 1..MaxOps : OpReturns(w) \/ OpRaises(w) \/ OpHangs(w)
    \/ JanitorProceed
    \/ JanitorTick

JanitorStart ==
    /\ JanitorInit
    /\ SchedIdle /\ CancelIdle /\ ScriptIdle /\ ParseIdle /\ BuilderIdle
    /\ ComposeIdle /\ StartupIdle /\ RewriteIdle /\ BatchIdle /\ CheckIdle
    /\ ClientIdle /\ CleanIdle /\ TaskIdle /\ SummaryIdle
    /\ ProbeIdle
    /\ ScopeIdle

JanitorSpec == JanitorStart /\ [][JanitorNext]_vars

\* C26: a cleanup routine whose Docker operation never returns gives the
\* operation up after its timeout: the routine is never blocked for longer
\* than the timeouts of its operations add up to.
C26_HungOperationAbandoned ==
    ((\E w \in 1..MaxOps : op_state[w] = "hung")
       /\ jan_clock > Budget(jan_routine))
      => jan_pc = "returned"

C34_CostLimitNotRetried ==
    [][HasRetryPolicy(model_backend) =>
         /\ (query_pc = "attempt" /\ num_calls' = num_calls + 1
               /\ (\/ LimitReached(total_cost_limit, stats'.total_cost)
                   \/ LimitReached(per_instance_cost_limit,
                                   stats'.instance_cost)))
              => /\ query_pc' = "raised"
                 /\ query_error' = "CostLimitExceededError"
                 /\ attempt_number' = attempt_number
         /\ query_error = "CostLimitExceededError"
              => \/ provider_calls' = provider_calls
                 \/ (query_pc = "raised" /\ attempt_number' = 1
                       /\ provider_calls' = 0)]_vars

\* the first provider answer of a query of a backend with a retry policy
\* raised the error, which reached the caller
C34_Witness ==
    /\ HasRetryPolicy(model_backend)
    /\ query_pc = "raised"
    /\ query_error = "CostLimitExceededError"
    /\ attempt_number = 1
    /\ provider_calls = 1

\* C40: reset_stats() without an argument sets instance_cost, tokens_sent,
\* tokens_received and api_calls to 0 and keeps total_cost, so total_cost
\* is the cost of every call the client made, and the total cost limit is
\* tested against that.
C40_ResetKeepsTotalCost ==
    [][/\ (num_calls > 0 /\ num_calls' = 0)
            => /\ stats'.instance_cost = 0
               /\ stats'.tokens_sent = 0
               /\ stats'.tokens_received = 0
               /\ stats'.api_calls = 0
               /\ stats'.total_cost = stats.total_cost
       /\ stats'.total_cost = total_spent'
       /\ (num_calls' = num_calls + 1 /\ total_cost_limit > 0
             /\ total_spent' >= total_cost_limit)
            => query_error' = "CostLimitExceededError"]_vars

\* after a reset a call raised on the total limit alone, the cost of the
\* instance being below it
C40_Witness ==
    /\ query_error = "CostLimitExceededError"
    /\ per_instance_cost_limit = 0
    /\ total_cost_limit > 0
    /\ stats.instance_cost < total_cost_limit
    /\ stats.total_cost >= total_cost_limit
    /\ stats.instance_cost > 0

(***************************************************************************)
(* ProbeSpec: is_port_in_use (sweagent/environment/utils.py) on a host     *)
(* whose ports are free, held by a socket that is bound and does not       *)
(* listen (as the sockets get_multiple_available_ports keeps while it      *)
(* collects ports), or held by a listening socket.                         *)
(***************************************************************************)
PortStates == {"free", "bound", "listening"}
ProbePorts == 1..NumProbePorts

\* sock.bind((host, port)) with SO_REUSEADDR: OSError when a socket holds
\* the port
BindSucceeds(state) == state = "free"

\* what the second socket can do: connect_ex gives 0 when something
\* listens, an error number when nothing does; creating the socket or
\* setting its timeout may raise
ConnectOutcomes(state) ==
    IF state = "listening" THEN {"connected", "raised"}
    ELSE {"refused", "raised"}

\* is_port_in_use: False after a bind that succeeded; else
\* `return result == 0` of connect_ex, and True when the second try block
\* raised
is_port_in_use(bound_ok, connect) ==
    IF bound_ok THEN FALSE
    ELSE IF connect = "raised" THEN TRUE
    ELSE connect = "connected"

BoolStr(b) == IF b THEN "True" ELSE "False"

ProbeInit ==
    /\ port_state \in [ProbePorts -> PortStates]
    /\ probed = 0
    /\ bind_ok = FALSE
    /\ connect_outcome = "none"
    /\ probe_result = "none"

ProbeRest == <<scopeVars,
    schedVars, startupVars, cancelVars, scriptVars, parseVars,
               builderVars, composeVars, rewriteVars, batchVars, checkVars,
               clientVars, cleanVars, taskVars, summaryVars, janitorVars>>

\* is_port_in_use(port)
ProbePort(port) ==
    /\ probed' = port
    /\ bind_ok' = BindSucceeds(port_state[port])
    /\ IF BindSucceeds(port_state[port])
         THEN /\ connect_outcome' = "none"
              /\ probe_result' = BoolStr(is_port_in_use(TRUE, "none"))
         ELSE \E connect \in ConnectOutcomes(port_state[port]) :
                /\ connect_outcome' = connect
                /\ probe_result' = BoolStr(is_port_in_use(FALSE, connect))
    /\ UNCHANGED <<port_state, ProbeRest>>

ProbeNext == \E port \in ProbePorts : ProbePort(port)

ProbeStart ==
    /\ ProbeInit
    /\ SchedIdle /\ CancelIdle /\ ScriptIdle /\ ParseIdle /\ BuilderIdle
    /\ ComposeIdle /\ StartupIdle /\ RewriteIdle /\ BatchIdle /\ CheckIdle
    /\ ClientIdle /\ CleanIdle /\ TaskIdle /\ SummaryIdle /\ JanitorIdle
    /\ ScopeIdle

ProbeSpec == ProbeStart /\ [][ProbeNext]_vars

\* C38: is_port_in_use returns False only after a bind that succeeded: when
\* the bind failed the port is reported in use, whatever the connect did.
C38_FreeOnlyIfBound ==
    (probed # 0 /\ probe_result = "False") => bind_ok

\* C31: after get_docker_compose with dynamic ports, every entry
\* internal -> external of the port mappings it returns is a binding
\* external:internal of at least one service of the document that is
\* brought up.
C31_EveryMappingBound ==
    (rewrite_pc = "up" /\ dynamic_ports /\ ~mappings_result.none) =>
      \A k \in 1..Len(mappings_result.items) :
        \E i \in 1..Len(actual_compose.services) :
          \E j \in 1..Len(actual_compose.services[i].ports) :
            actual_compose.services[i].ports[j]
              = PortPair(mappings_result.items[k][2],
                         mappings_result.items[k][1])

\* C32: the port mappings get_docker_compose builds are injective: two
\* different internal ports never get the same external port.
C32_PortMapInjective ==
    (rewrite_pc = "up" /\ ~mappings_result.none) =>
      \A k, l \in 1..Len(mappings_result.items) :
        mappings_result.items[k][2] = mappings_result.items[l][2] => k = l

\* C39: in the document create_dynamic_docker_compose produces no external
\* port stands in more than one port binding, over all services.
C39_ExternalPortOnce ==
    rewrite_pc = "rewritten" =>
      \A i1, i2 \in 1..Len(modified_compose.services) :
        \A j1 \in 1..Len(modified_compose.services[i1].ports) :
          \A j2 \in 1..Len(modified_compose.services[i2].ports) :
            LET b1 == modified_compose.services[i1].ports[j1]
                b2 == modified_compose.services[i2].ports[j2]
            IN  (b1.kind = "pair" /\ b2.kind = "pair"
                   /\ b1.external = b2.external)
                  => (i1 = i2 /\ j1 = j2)

\* C36: whenever cleanup_finished_sessions returns, the in-memory set
\* TmuxManager.active_sessions holds exactly the sessions the active
\* sessions file lists.
C36_ActiveSetIsFile ==
    [][CfsReturn => active_sessions' = sessions_file']_vars

(***************************************************************************)
(* DispatchSpec: one round of the run with the scheduling of StuckSpec and *)
(* wrapper scripts that keep running: a script that can take its next      *)
(* step (pre-flight check, first write, final write) eventually takes it.  *)
(***************************************************************************)
DispatchStart ==
    /\ try_times = 1
    /\ start_try = StartTry
    /\ RunStart
    /\ enable_logs = FALSE
    /\ CancelIdle /\ ScriptIdle /\ ParseIdle /\ BuilderIdle /\ ComposeIdle
    /\ StartupIdle /\ RewriteIdle /\ BatchIdle
    /\ CheckIdle
    /\ ClientIdle
    /\ CleanIdle
    /\ TaskIdle
    /\ SummaryIdle
    /\ JanitorIdle
    /\ ProbeIdle
    /\ ScopeIdle

\* the next step of the wrapper script of attempt a
WrapperStep(a) ==
    \/ WrapperPrecheckFail(a)
    \/ WrapperInit(a)
    \/ WrapperFinish(a)

DispatchSpec ==
    /\ DispatchStart
    /\ [][Next]_vars
    /\ WF_vars(SupervisorNext)
    /\ SF_vars(WaitTimeout)
    /\ \A a \in Attempts : WF_vars(WrapperStep(a))

\* every launched session writes a terminal status, disappears or is killed
SessionsEnd ==
    \A a \in Attempts :
        (tmux[a] = "alive")
          ~> (tmux[a] # "alive" \/ status[a] \in TerminalStatus)

\* every attempt of the round was handed to create_session and
\* run_parallel has returned
RoundDispatched ==
    /\ pc = "done"
    /\ \A a \in Attempts : TryOf(a) = StartTry => submissions[a] > 0

\* C35: the dispatch loop does not block for good: if every launched
\* session writes a terminal status, disappears or is killed, every attempt
\* queued in the round is submitted and run_parallel returns.
C35_DispatchNeverBlocks ==
    SessionsEnd => <>RoundDispatched

(***************************************************************************)
(* ScopeSpec: DockerManager.cleanup_task_resources for the session of      *)
(* attempt A while attempt B of the same execution is still running.       *)
(* Docker holds the container of each attempt and one network named after  *)
(* each attempt.  A string is a sequence of pieces as in ParseSpec; the    *)
(* decimal digits of an instance id are one piece each, so that "1" is a   *)
(* prefix of "10".                                                         *)
(***************************************************************************)
\* execution ids: hostname, os.getpid(), int(time.time()) % 1000000
Executions ==
    [machine_id : {<<"ctfhost">>}, process_id : {<<"1">>, <<"4242">>},
     timestamp : {<<"171">>}]

\* str(instance_id), str(try_num) and the dataset's keys
InstanceIds == {<<"1">>, <<"2">>, <<"1", "0">>}
TryNumbers == {<<"1">>, <<"2">>}
DatasetKeys == {<<"pwn1">>, <<"171">>}

ScopeAttempts ==
    [instance_id : InstanceIds, challenge_id : DatasetKeys,
     try_num : TryNumbers]

\* run_parallel: f"{session_prefix}_{instance_id}_{challenge_id}_try{try_num}"
AttemptSessionName(e, a) ==
    Join(<<SessionPrefix(e), a.instance_id, a.challenge_id,
           <<"try">> \o a.try_num>>, <<"_">>)

\* _build_run_command: the --container_name of the attempt
AttemptContainerName(e, a) ==
    ContainerName(ExecutionId(e), a.instance_id, a.challenge_id, a.try_num)

\* _cleanup_task_networks: network_patterns
NetworkPatterns(execution_id, instance, chal, try) ==
    {<<"ctfnet", "_">> \o execution_id \o <<"_">> \o instance,
     <<"tmp", "_", "ctfnet", "_">> \o execution_id \o <<"_">> \o instance,
     execution_id \o <<"_">> \o instance \o <<"_", "default">>,
     <<"ctfnet", "_">> \o chal \o <<"_">> \o try,
     <<"tmp", "_", "ctfnet", "_">> \o chal \o <<"_">> \o try}

\* the network names of an attempt: the patterns filled in with its ids
AttemptNetworkNames(e, a) ==
    NetworkPatterns(ExecutionId(e), a.instance_id, a.challenge_id, a.try_num)

\* `pattern in network.name`
PatternIn(pattern, name) ==
    \E i \in 1..(Len(name) - Len(pattern) + 1) :
        SubSeq(name, i, i + Len(pattern) - 1) = pattern

\* cleanup_task_resources: the ids it reads out of the session name
\* (Python parts[2], parts[3], parts[4])
SessionParts(session_name) ==
    LET split == Split(session_name)
    IN  [parsed |-> Len(split) >= 5,
         instance_id |-> split[3],
         challenge_id |-> split[4],
         try_num |-> ReplaceTry(split[5])]

\* the container cleanup_task_resources asks Docker for
TargetContainer(e, session_name) ==
    LET p == SessionParts(session_name)
    IN  ContainerName(ExecutionId(e), p.instance_id, p.challenge_id,
                      p.try_num)

\* the networks of Docker that _cleanup_task_networks picks
TargetNetworks(e, session_name, networks) ==
    LET p == SessionParts(session_name)
        patterns == NetworkPatterns(ExecutionId(e), p.instance_id,
                                    p.challenge_id, p.try_num)
    IN  {n \in networks : \E pattern \in patterns : PatternIn(pattern, n)}

ScopeInit ==
    /\ scope_pc = "call"
    /\ execution \in Executions
    /\ attempt_A \in ScopeAttempts
    /\ attempt_B \in ScopeAttempts
    /\ attempt_A.instance_id # attempt_B.instance_id
    /\ attempt_A.challenge_id # attempt_B.challenge_id
    /\ attempt_A.try_num = attempt_B.try_num
    /\ \E net_A \in AttemptNetworkNames(execution, attempt_A) :
         \E net_B \in AttemptNetworkNames(execution, attempt_B) :
           docker_networks = {net_A, net_B}
    /\ docker_containers = {AttemptContainerName(execution, attempt_A),
                            AttemptContainerName(execution, attempt_B)}
    /\ removed_networks = {}
    /\ removed_containers = {}

ScopeRest == <<probeVars, janitorVars, summaryVars, taskVars, cleanVars,
               clientVars, checkVars, batchVars, rewriteVars, schedVars,
               startupVars, cancelVars, scriptVars, parseVars, builderVars,
               composeVars>>

\* cleanup_task_resources(session name of attempt A, execution_id): without
\* a client nothing is done; a Docker call that raises leaves its container
\* or network in place
CleanupAttemptResources ==
    /\ scope_pc = "call"
    /\ \E client \in BOOLEAN, container_fails \in BOOLEAN :
         \E failing \in SUBSET docker_networks :
           LET session_name == AttemptSessionName(execution, attempt_A)
               container == TargetContainer(execution, session_name)
               nets == TargetNetworks(execution, session_name,
                                      docker_networks)
           IN  /\ removed_containers' =
                     IF client /\ ~container_fails
                          /\ SessionParts(session_name).parsed
                       THEN {container} \cap docker_containers
                       ELSE {}
               /\ removed_networks' =
                     IF client /\ SessionParts(session_name).parsed
                       THEN nets \ failing
                       ELSE {}
    /\ docker_containers' = docker_containers \ removed_containers'
    /\ docker_networks' = docker_networks \ removed_networks'
    /\ scope_pc' = "done"
    /\ UNCHANGED <<execution, attempt_A, attempt_B, ScopeRest>>

ScopeNext == CleanupAttemptResources

ScopeStart ==
    /\ ScopeInit
    /\ SchedIdle /\ CancelIdle /\ ScriptIdle /\ ParseIdle /\ BuilderIdle
    /\ ComposeIdle /\ StartupIdle /\ RewriteIdle /\ BatchIdle /\ CheckIdle
    /\ ClientIdle /\ CleanIdle /\ TaskIdle /\ SummaryIdle /\ JanitorIdle
    /\ ProbeIdle

ScopeSpec == ScopeStart /\ [][ScopeNext]_vars

\* the names of Docker that are attempt B's and not attempt A's
OnlyOfB ==
    (AttemptNetworkNames(execution, attempt_B)
        \ AttemptNetworkNames(execution, attempt_A))
      \cup ({AttemptContainerName(execution, attempt_B)}
              \ {AttemptContainerName(execution, attempt_A)})

\* C37: cleanup_task_resources for attempt A removes only containers and
\* networks of attempt A, never the container or a network of another
\* attempt B that is still running, whatever the instance ids, challenge
\* ids and try numbers.
C37_CleanupOnlyOwnAttempt ==
    scope_pc = "done" =>
        (removed_networks \cup removed_containers) \cap OnlyOfB = {}

====
